---- MODULE Spec2Model ----
(***************************************************************************)
(* A model of cyme's display layer (src/src/display.rs): the block         *)
(* (column) formatting functions, the padding calculator, the tree-draw    *)
(* state and the recursive printers.                                       *)
(*                                                                         *)
(* Text is a sequence of one-character strings, so that widths, padding    *)
(* and alignment are computed and not assumed.  An Option<T> is a sequence *)
(* of length 0 (None) or 1 (Some).  Colour themes are not modelled         *)
(* (settings.colours is None): colouring wraps a finished cell and changes *)
(* neither its text nor its place.                                         *)
(***************************************************************************)
EXTENDS Integers, Sequences, FiniteSets

VARIABLES
    sp_usb,     \* the SPUSBDataType handed to the printers: [buses: Seq(bus)]
    settings,   \* the PrintSettings of the render pass
    out,        \* the lines written to stdout, in order
    calls,      \* every call of generate_tree_data: parent, arguments, result
    phase,      \* "ready" before printing, then the name of the printer that ran
    batch,      \* padding check: the sibling batch handed to generate_padding
    pad,        \* padding check: the padding table computed from batch
    fmt_in,     \* format check: [v, decimal, code] given to the formatters
    fmt_out,    \* format check: the cells rendered from fmt_in
    arg,        \* the arguments of the function called (mask_serial, sort_devices,
                \* prepare), as they were at the call
    ret,        \* what the function returned or left in its arguments
    filter,     \* the Option<USBFilter> handed to prepare
    steps       \* the passes prepare ran, in order

vars ==
    <<sp_usb, settings, out, calls, phase, batch, pad, fmt_in, fmt_out,
      arg, ret, filter, steps>>

(***************************************************************************)
(* Bounds of the model.                                                    *)
(***************************************************************************)
MaxKids == 2        \* sibling devices per batch of the printed trees
MaxBuses == 3       \* buses of the printed trees
MaxBatch == 2       \* entities per batch of the padding check
MaxTPosLen == 3     \* entries of a device's tree_positions

(***************************************************************************)
(* Program constants.                                                      *)
(***************************************************************************)
MAX_VERBOSITY == 4
U16Max == 65535
U8Max == 255

(***************************************************************************)
(* Option and text helpers.                                                *)
(***************************************************************************)
None == <<>>
Some(x) == <<x>>
IsSome(o) == Len(o) = 1
Unwrap(o) == o[1]

Max(a, b) == IF a >= b THEN a ELSE b

Spaces(n) == [k \in 1..n |-> " "]

\* The one two-byte character of the model's alphabet.
WideChar == "e'"

\* str::len(): the length of the UTF-8 encoding, in bytes.
RECURSIVE ByteLen(_)
ByteLen(s) ==
    IF s = <<>> THEN 0
    ELSE (IF Head(s) = WideChar THEN 2 ELSE 1) + ByteLen(Tail(s))

\* The width the formatter counts: characters.
CharLen(s) == Len(s)

\* format!("{:w$}", s) for a string: left-aligned, never truncated.
PadLeftAlign(s, w) == IF CharLen(s) >= w THEN s ELSE s \o Spaces(w - CharLen(s))

\* format!("{:>w$}", s), and format!("{:w$}", n) for a number: right-aligned.
PadRightAlign(s, w) == IF CharLen(s) >= w THEN s ELSE Spaces(w - CharLen(s)) \o s

\* format!("{:^w$}", s): centred, the odd space goes to the right.
PadCentre(s, w) ==
    IF CharLen(s) >= w THEN s
    ELSE LET gap == w - CharLen(s)
             left == gap \div 2
         IN Spaces(left) \o s \o Spaces(gap - left)

DecDigit(d) == <<"0", "1", "2", "3", "4", "5", "6", "7", "8", "9">>[d + 1]
HexDigit(d) ==
    <<"0", "1", "2", "3", "4", "5", "6", "7", "8", "9",
      "a", "b", "c", "d", "e", "f">>[d + 1]
\* Display of an unsigned integer: decimal digits, no leading zero.
RECURSIVE DecStr(_)
DecStr(n) == IF n < 10 THEN <<DecDigit(n)>> ELSE DecStr(n \div 10) \o <<DecDigit(n % 10)>>

\* {:0w$x}: lower-case hex, zero-padded to w digits.
RECURSIVE HexStr(_, _)
HexStr(n, w) ==
    IF w <= 1 /\ n < 16 THEN <<HexDigit(n)>>
    ELSE HexStr(n \div 16, w - 1) \o <<HexDigit(n % 16)>>

\* Vec<String>::join(sep)
RECURSIVE Join(_, _)
Join(ss, sep) ==
    IF ss = <<>> THEN <<>>
    ELSE IF Len(ss) = 1 THEN ss[1]
    ELSE ss[1] \o sep \o Join(Tail(ss), sep)

(***************************************************************************)
(* Block::format_base_u16 and Block::format_base_u8.                       *)
(***************************************************************************)
FormatBaseU16_NoZeroPad(v, s) ==
    IF s.decimal THEN PadRightAlign(DecStr(v), 6) ELSE <<"0", "x">> \o HexStr(v, 1)

FormatBaseU16(v, s) ==
    IF s.decimal THEN PadRightAlign(DecStr(v), 6) ELSE <<"0", "x">> \o HexStr(v, 4)

FormatBaseU8(v, s) ==
    IF s.decimal THEN PadRightAlign(DecStr(v), 3) ELSE <<"0", "x">> \o HexStr(v, 2)

(***************************************************************************)
(* Entities.  A field that display.rs reads through a method of another    *)
(* file (port_path(), to_string(), attributes_string(), ...) holds the     *)
(* text that method returned.                                              *)
(***************************************************************************)
Txt1 == <<"a">>
Txt2 == <<"a", "b">>
Txt3 == <<"a", "b", "c">>
Txt5 == <<"a", "b", "c", "d", "e">>
Txt7 == <<"a", "b", "c", "d", "e", "f", "g">>
Txt9 == <<"a", "b", "c", "d", "e", "f", "g", "h", "i">>
Txt14 ==
    <<"a", "b", "c", "d", "e", "f", "g", "h", "i", "j", "k", "l", "m", "n">>
TxtWide == <<"c", "a", "f", WideChar, "s", "!">>

USBEndpoint(number, direction) ==
    [address |-> [number |-> number, direction |-> direction],
     transfer_type |-> <<"B", "u", "l", "k">>,
     sync_type |-> <<"N", "o", "n", "e">>,
     usage_type |-> <<"D", "a", "t", "a">>,
     max_packet_string |-> <<"1", "x", " ", "6", "4">>,
     interval |-> 0]

USBInterface(number, name, endpoints) ==
    [name |-> name, number |-> number, path |-> <<"1", "-", "1", ":", "1", ".", "0">>,
     class |-> <<"H", "I", "D">>, sub_class |-> 1, protocol |-> 2, alt_setting |-> 0,
     driver |-> None, syspath |-> None, endpoints |-> endpoints]

USBConfiguration(number, name, interfaces) ==
    [name |-> name, number |-> number, interfaces |-> interfaces,
     attributes |-> <<"SelfPowered", "RemoteWakeup">>,
     attributes_string |-> <<"S", "e", "l", "f">>,
     max_power |-> 100]

\* USBDeviceExtra: present only when libusb could open the device.
USBDeviceExtra(text, configurations) ==
    [syspath |-> text, driver |-> text, product_name |-> text, vendor |-> text,
     configurations |-> configurations]

USBDevice(number, name, tree_positions, opt_text, opt_code, extra, devices) ==
    [name |-> name,
     serial_num |-> opt_text,
     manufacturer |-> opt_text,
     location_id |-> [bus |-> 1, number |-> number, tree_positions |-> tree_positions],
     branch_position |-> IF tree_positions = <<>> THEN 0
                         ELSE tree_positions[Len(tree_positions)],
     port_path |-> <<"1", "-">> \o Join([k \in 1..Len(tree_positions) |->
                                          DecStr(tree_positions[k])], <<".">>),
     vendor_id |-> IF IsSome(opt_code) THEN Some(1133) ELSE None,
     product_id |-> IF IsSome(opt_code) THEN Some(0) ELSE None,
     device_speed |-> None,
     bus_power |-> None, bus_power_used |-> None, extra_current_used |-> None,
     bcd_device |-> None, bcd_usb |-> None,
     class |-> opt_text,
     sub_class |-> opt_code,
     protocol |-> opt_code,
     extra |-> extra,
     devices |-> devices]

USBBus(number, name, host_controller, devices) ==
    [name |-> name, host_controller |-> host_controller,
     usb_bus_number |-> number,
     path |-> <<"1", "-", "0">>,
     pci_vendor |-> None, pci_device |-> Some(number), pci_revision |-> None,
     devices |-> devices]

(***************************************************************************)
(* The padding table: block -> width.  pad.get(b).unwrap_or(&d).           *)
(***************************************************************************)
EmptyPad == [b \in {} |-> 0]
PadGet(p, b, d) == IF b \in DOMAIN p THEN p[b] ELSE d

\* d.iter().map(f).max().unwrap_or(0) over the lengths in the sequence ls
RECURSIVE MaxOf(_)
MaxOf(ls) == IF ls = <<>> THEN 0 ELSE Max(Head(ls), MaxOf(Tail(ls)))

\* Option<String>.as_ref().unwrap_or(&String::new())
UnwrapOrEmpty(o) == IF IsSome(o) THEN Unwrap(o) ELSE <<>>

(***************************************************************************)
(* impl Block<DeviceBlocks, USBDevice> for DeviceBlocks                    *)
(***************************************************************************)
DeviceBlocks ==
    {"BusNumber", "DeviceNumber", "BranchPosition", "PortPath", "SysPath", "Driver",
     "Icon", "VendorId", "ProductId", "Name", "Manufacturer", "ProductName",
     "VendorName", "Serial", "Speed", "TreePositions", "BusPower", "BusPowerUsed",
     "ExtraCurrentUsed", "BcdDevice", "BcdUsb", "ClassCode", "SubClass", "Protocol"}

ICON_HEADING == <<"I">>

DeviceLabel(b) ==
    CASE b = "PortPath" -> <<"P", "P", "a", "t", "h">>
      [] b = "SysPath" -> <<"S", "P", "a", "t", "h">>
      [] b = "Driver" -> <<"D", "r", "i", "v", "e", "r">>
      [] b = "Name" -> <<"N", "a", "m", "e">>
      [] b = "Manufacturer" -> <<"M", "a", "n", "u", "f", "a", "c", "t", "u", "r", "e", "r">>
      [] b = "ProductName" -> <<"P", "N", "a", "m", "e">>
      [] b = "VendorName" -> <<"V", "N", "a", "m", "e">>
      [] b = "Serial" -> <<"S", "e", "r", "i", "a", "l">>
      [] b = "TreePositions" -> <<"T", "P", "o", "s">>
      [] b = "ClassCode" -> <<"C", "l", "a", "s", "s">>

DeviceHeading(b, p) ==
    CASE b = "BusNumber" -> <<"B", "u", "s">>
      [] b = "DeviceNumber" -> <<" ", "#", " ">>
      [] b = "BranchPosition" -> <<"P", "r", "t">>
      [] b = "VendorId" -> PadCentre(<<"V", "I", "D">>, 6)
      [] b = "ProductId" -> PadCentre(<<"P", "I", "D">>, 6)
      [] b = "Speed" -> PadCentre(<<"S", "p", "e", "e", "d">>, 10)
      [] b = "BusPower" -> <<"P", "B", "u", "s">>
      [] b = "BusPowerUsed" -> <<"P", "U", "s", "d">>
      [] b = "ExtraCurrentUsed" -> <<"P", "E", "x", "r">>
      [] b = "BcdDevice" -> <<"D", "e", "v", " ", "V">>
      [] b = "BcdUsb" -> <<"U", "S", "B", " ", "V">>
      [] b = "SubClass" -> <<"S", "u", "b", "C">>
      [] b = "Protocol" -> <<"P", "c", "o", "l">>
      [] b = "Icon" -> ICON_HEADING
      [] OTHER -> PadCentre(DeviceLabel(b), PadGet(p, b, 0))

\* The text whose length generate_padding measures for a padded column.
DevicePaddedBlocks ==
    {"Name", "Serial", "Manufacturer", "TreePositions", "PortPath", "SysPath",
     "Driver", "ProductName", "VendorName", "ClassCode"}

\* The value-length term of generate_padding for device d and block b.
DeviceValueLen(b, d) ==
    CASE b = "Name" -> ByteLen(d.name)
      [] b = "Serial" -> ByteLen(UnwrapOrEmpty(d.serial_num))
      [] b = "Manufacturer" -> ByteLen(UnwrapOrEmpty(d.manufacturer))
      [] b = "TreePositions" -> Len(d.location_id.tree_positions) * 2
      [] b = "PortPath" -> ByteLen(d.port_path)
      [] b = "SysPath" ->
            IF IsSome(d.extra) THEN ByteLen(UnwrapOrEmpty(Unwrap(d.extra).syspath)) ELSE 0
      [] b = "Driver" ->
            IF IsSome(d.extra) THEN ByteLen(UnwrapOrEmpty(Unwrap(d.extra).driver)) ELSE 0
      [] b = "ProductName" ->
            IF IsSome(d.extra) THEN ByteLen(UnwrapOrEmpty(Unwrap(d.extra).product_name))
            ELSE 0
      [] b = "VendorName" ->
            IF IsSome(d.extra) THEN ByteLen(UnwrapOrEmpty(Unwrap(d.extra).vendor)) ELSE 0
      [] b = "ClassCode" -> ByteLen(UnwrapOrEmpty(d.class))

DeviceGeneratePadding(ds) ==
    [b \in DevicePaddedBlocks |->
        Max(ByteLen(DeviceHeading(b, EmptyPad)),
            MaxOf([k \in 1..Len(ds) |-> DeviceValueLen(b, ds[k])]))]

DeviceValueIsString(b) == b \in {"Name", "Serial", "PortPath", "Manufacturer"}

\* An optional text column: the value, or "-", padded to the column's width.
OptTextCell(o, w) ==
    IF IsSome(o) THEN PadLeftAlign(Unwrap(o), w) ELSE PadLeftAlign(<<"-">>, w)

\* A text column of the extended-info block whose placeholder is the bare "-".
ExtraTextCell_BarePlaceholder(d, field, w) ==
    IF IsSome(d.extra) /\ IsSome(Unwrap(d.extra)[field])
    THEN PadLeftAlign(Unwrap(Unwrap(d.extra)[field]), w)
    ELSE <<"-">>

\* A text column of the extended-info block.
ExtraTextCell(d, field, w) ==
    IF IsSome(d.extra)
    THEN PadLeftAlign(IF IsSome(Unwrap(d.extra)[field]) THEN Unwrap(Unwrap(d.extra)[field])
                      ELSE PadLeftAlign(<<"-">>, w), w)
    ELSE PadLeftAlign(<<"-">>, w)

OptCodeCell(o, s) ==
    IF IsSome(o) THEN FormatBaseU8(Unwrap(o), s) ELSE PadRightAlign(<<"-">>, 4)

\* The cell of an optional 16-bit id.
OptIdCell(o, s) ==
    IF IsSome(o) THEN FormatBaseU16(Unwrap(o), s) ELSE PadRightAlign(<<"-">>, 6)

\* The cell of an optional current in mA.
OptPowerCell(o) ==
    IF IsSome(o) THEN PadRightAlign(DecStr(Unwrap(o)), 3) \o <<" ", "m", "A">>
    ELSE PadRightAlign(<<"-">>, 6)

\* The cell of an optional version, given as its text.
OptVersionCell(o) ==
    IF IsSome(o) THEN PadLeftAlign(Unwrap(o), 5) ELSE PadRightAlign(<<"-">>, 5)

\* The device's tree positions joined by "-".
TreePositionsText(d) ==
    Join([k \in 1..Len(d.location_id.tree_positions) |->
            DecStr(d.location_id.tree_positions[k])], <<"-">>)

\* DeviceBlocks::format_value: Option<String>
DeviceFormatValue(b, d, p, s) ==
    LET w == PadGet(p, b, 0) IN
    CASE b = "BusNumber" -> Some(PadRightAlign(DecStr(d.location_id.bus), 3))
      [] b = "DeviceNumber" -> Some(PadRightAlign(DecStr(d.location_id.number), 3))
      [] b = "BranchPosition" -> Some(PadRightAlign(DecStr(d.branch_position), 3))
      [] b = "PortPath" -> Some(PadLeftAlign(d.port_path, w))
      [] b = "SysPath" -> Some(ExtraTextCell(d, "syspath", w))
      [] b = "Driver" -> Some(ExtraTextCell(d, "driver", w))
      [] b = "ProductName" -> Some(ExtraTextCell(d, "product_name", w))
      [] b = "VendorName" -> Some(ExtraTextCell(d, "vendor", w))
      [] b = "Icon" -> IF s.icons THEN Some(<<"@">>) ELSE None
      [] b = "VendorId" -> Some(OptIdCell(d.vendor_id, s))
      [] b = "ProductId" -> Some(OptIdCell(d.product_id, s))
      [] b = "Name" -> Some(PadLeftAlign(d.name, w))
      [] b = "Manufacturer" -> Some(OptTextCell(d.manufacturer, w))
      [] b = "Serial" -> Some(OptTextCell(d.serial_num, w))
      [] b = "Speed" -> Some(IF IsSome(d.device_speed)
                             THEN PadRightAlign(Unwrap(d.device_speed), 10)
                             ELSE PadRightAlign(<<"-">>, 10))
      [] b = "TreePositions" -> Some(PadLeftAlign(TreePositionsText(d), w))
      [] b = "BusPower" -> Some(OptPowerCell(d.bus_power))
      [] b = "BusPowerUsed" -> Some(OptPowerCell(d.bus_power_used))
      [] b = "ExtraCurrentUsed" -> Some(OptPowerCell(d.extra_current_used))
      [] b = "BcdDevice" -> Some(OptVersionCell(d.bcd_device))
      [] b = "BcdUsb" -> Some(OptVersionCell(d.bcd_usb))
      [] b = "ClassCode" -> Some(OptTextCell(d.class, w))
      [] b = "SubClass" -> Some(OptCodeCell(d.sub_class, s))
      [] b = "Protocol" -> Some(OptCodeCell(d.protocol, s))

DefaultDeviceTreeBlocks ==
    <<"Icon", "DeviceNumber", "VendorId", "ProductId", "Name", "Serial">>

DeviceDefaultBlocks(verbose) ==
    IF verbose
    THEN <<"BusNumber", "DeviceNumber", "TreePositions", "PortPath", "Icon", "VendorId",
           "ProductId", "BcdDevice", "BcdUsb", "ClassCode", "SubClass", "Protocol",
           "Name", "Manufacturer", "Serial", "Driver", "Speed">>
    ELSE <<"BusNumber", "DeviceNumber", "Icon", "VendorId", "ProductId", "Name",
           "Serial", "Speed">>

(***************************************************************************)
(* impl Block<BusBlocks, USBBus> for BusBlocks                             *)
(***************************************************************************)
BusBlocks ==
    {"BusNumber", "Icon", "Name", "HostController", "PciVendor", "PciDevice",
     "PciRevision", "PortPath"}

BusHeading(b, p) ==
    CASE b = "BusNumber" -> <<"B", "u", "s">>
      [] b = "PortPath" -> <<"P", "o", "r", "t", "P", "a", "t", "h">>
      [] b = "PciDevice" -> <<" ", "P", "I", "D", " ">>
      [] b = "PciVendor" -> <<" ", "V", "I", "D", " ">>
      [] b = "PciRevision" -> <<" ", "R", "e", "v", " ">>
      [] b = "Name" -> PadCentre(<<"N", "a", "m", "e">>, PadGet(p, b, 0))
      [] b = "HostController" ->
            PadCentre(<<"H", "o", "s", "t", " ", "C", "o", "n", "t", "r", "o", "l", "l",
                        "e", "r">>, PadGet(p, b, 0))
      [] b = "Icon" -> ICON_HEADING

BusPaddedBlocks == {"Name", "HostController", "PortPath"}

BusValueLen(b, bus) ==
    CASE b = "Name" -> ByteLen(bus.name)
      [] b = "HostController" -> ByteLen(bus.host_controller)
      [] b = "PortPath" -> ByteLen(bus.path)

BusGeneratePadding(bs) ==
    [b \in BusPaddedBlocks |->
        Max(ByteLen(BusHeading(b, EmptyPad)),
            MaxOf([k \in 1..Len(bs) |-> BusValueLen(b, bs[k])]))]

BusValueIsString(b) == b \in {"Name", "HostController"}

BusFormatValue(b, bus, p, s) ==
    LET w == PadGet(p, b, 0) IN
    CASE b = "BusNumber" -> Some(PadRightAlign(DecStr(bus.usb_bus_number), 3))
      [] b = "Icon" -> IF s.icons THEN Some(<<"@">>) ELSE None
      [] b = "PciVendor" -> Some(OptIdCell(bus.pci_vendor, s))
      [] b = "PciDevice" -> Some(OptIdCell(bus.pci_device, s))
      [] b = "PciRevision" -> Some(OptIdCell(bus.pci_revision, s))
      [] b = "Name" -> Some(PadLeftAlign(bus.name, w))
      [] b = "HostController" -> Some(PadLeftAlign(bus.host_controller, w))
      [] b = "PortPath" -> Some(PadLeftAlign(bus.path, w))

BusDefaultBlocks(verbose) ==
    IF verbose
    THEN <<"Icon", "PortPath", "Name", "HostController", "PciVendor", "PciDevice",
           "PciRevision">>
    ELSE <<"Name", "HostController">>

(***************************************************************************)
(* impl Block<ConfigurationBlocks, USBConfiguration>                       *)
(***************************************************************************)
ConfigurationBlocks ==
    {"Name", "Number", "NumInterfaces", "Attributes", "IconAttributes", "MaxPower"}

\* attributes_to_icons: one icon per attribute, joined by a space, when icons are on
AttributesToIcons(attributes, s) ==
    IF s.icons THEN Join([k \in 1..Len(attributes) |-> <<"@">>], <<" ">>) ELSE <<>>

ConfigHeading(b, p) ==
    CASE b = "Number" -> <<" ", "#">>
      [] b = "NumInterfaces" -> <<"I", "#">>
      [] b = "MaxPower" -> <<"P", "M", "a", "x">>
      [] b = "Name" -> PadCentre(<<"N", "a", "m", "e">>, PadGet(p, b, 0))
      [] b = "Attributes" ->
            PadCentre(<<"A", "t", "t", "r", "i", "b", "u", "t", "e", "s">>, PadGet(p, b, 0))
      [] b = "IconAttributes" -> PadCentre(ICON_HEADING, PadGet(p, b, 3))

ConfigPaddedBlocks == {"Name", "Attributes"}

ConfigValueLen(b, c) ==
    CASE b = "Name" -> ByteLen(c.name)
      [] b = "Attributes" -> ByteLen(c.attributes_string)

ConfigGeneratePadding(cs) ==
    [b \in ConfigPaddedBlocks |->
        Max(ByteLen(ConfigHeading(b, EmptyPad)),
            MaxOf([k \in 1..Len(cs) |-> ConfigValueLen(b, cs[k])]))]

ConfigValueIsString(b) == b \in {"Name", "Attributes"}

ConfigFormatValue(b, c, p, s) ==
    CASE b = "Number" -> Some(PadRightAlign(DecStr(c.number), 2))
      [] b = "NumInterfaces" -> Some(PadRightAlign(DecStr(Len(c.interfaces)), 2))
      [] b = "Name" -> Some(PadLeftAlign(c.name, PadGet(p, b, 0)))
      [] b = "MaxPower" -> Some(PadRightAlign(DecStr(c.max_power), 3))
      [] b = "Attributes" -> Some(PadLeftAlign(c.attributes_string, PadGet(p, b, 0)))
      [] b = "IconAttributes" ->
            Some(PadLeftAlign(AttributesToIcons(c.attributes, s), PadGet(p, b, 3)))

ConfigDefaultBlocks(verbose) ==
    IF verbose
    THEN <<"Number", "IconAttributes", "Attributes", "NumInterfaces", "MaxPower", "Name">>
    ELSE <<"Number", "IconAttributes", "MaxPower", "Name">>

(***************************************************************************)
(* impl Block<InterfaceBlocks, USBInterface>                               *)
(***************************************************************************)
InterfaceBlocks ==
    {"Name", "Number", "PortPath", "ClassCode", "SubClass", "Protocol", "AltSetting",
     "Driver", "SysPath", "NumEndpoints", "Icon"}

InterfaceHeading(b, p) ==
    CASE b = "Number" -> <<" ", "#">>
      [] b = "Name" -> PadCentre(<<"N", "a", "m", "e">>, PadGet(p, b, 0))
      [] b = "NumEndpoints" -> <<"E", "#">>
      [] b = "PortPath" ->
            PadCentre(<<"P", "o", "r", "t", "P", "a", "t", "h">>, PadGet(p, b, 0))
      [] b = "SysPath" -> PadCentre(<<"S", "y", "s", "P", "a", "t", "h">>, PadGet(p, b, 0))
      [] b = "Driver" -> PadCentre(<<"D", "r", "i", "v", "e", "r">>, PadGet(p, b, 0))
      [] b = "ClassCode" -> PadCentre(<<"C", "l", "a", "s", "s">>, PadGet(p, b, 0))
      [] b = "SubClass" -> <<"S", "u", "b", "C">>
      [] b = "Protocol" -> <<"P", "c", "o", "l">>
      [] b = "AltSetting" -> <<"A", "l", "t", "#">>
      [] b = "Icon" -> ICON_HEADING

InterfacePaddedBlocks == {"Name", "ClassCode", "PortPath", "SysPath", "Driver"}

InterfaceValueLen(b, i) ==
    CASE b = "Name" -> ByteLen(i.name)
      [] b = "ClassCode" -> ByteLen(i.class)
      [] b = "PortPath" -> ByteLen(i.path)
      [] b = "SysPath" -> ByteLen(UnwrapOrEmpty(i.syspath))
      [] b = "Driver" -> ByteLen(UnwrapOrEmpty(i.driver))

InterfaceGeneratePadding(is) ==
    [b \in InterfacePaddedBlocks |->
        Max(ByteLen(InterfaceHeading(b, EmptyPad)),
            MaxOf([k \in 1..Len(is) |-> InterfaceValueLen(b, is[k])]))]

InterfaceValueIsString(b) == b \in {"Name", "PortPath", "ClassCode", "Driver", "SysPath"}

InterfaceFormatValue(b, i, p, s) ==
    LET w == PadGet(p, b, 0) IN
    CASE b = "Number" -> Some(PadRightAlign(DecStr(i.number), 2))
      [] b = "Name" -> Some(PadLeftAlign(i.name, w))
      [] b = "NumEndpoints" -> Some(PadRightAlign(DecStr(Len(i.endpoints)), 2))
      [] b = "PortPath" -> Some(PadLeftAlign(i.path, w))
      [] b = "SysPath" -> Some(OptTextCell(i.syspath, w))
      [] b = "Driver" -> Some(OptTextCell(i.driver, w))
      [] b = "ClassCode" -> Some(PadLeftAlign(i.class, w))
      [] b = "SubClass" -> Some(FormatBaseU8(i.sub_class, s))
      [] b = "Protocol" -> Some(FormatBaseU8(i.protocol, s))
      [] b = "AltSetting" -> Some(FormatBaseU8(i.alt_setting, s))
      [] b = "Icon" -> IF s.icons THEN Some(<<"@">>) ELSE None

InterfaceDefaultBlocks(verbose) ==
    IF verbose
    THEN <<"PortPath", "Icon", "AltSetting", "ClassCode", "SubClass", "Protocol", "Name",
           "Driver", "NumEndpoints">>
    ELSE <<"PortPath", "Icon", "AltSetting", "ClassCode", "SubClass", "Protocol", "Name">>

(***************************************************************************)
(* impl Block<EndpointBlocks, USBEndpoint>                                 *)
(***************************************************************************)
EndpointBlocks ==
    {"Number", "Direction", "TransferType", "SyncType", "UsageType", "MaxPacketSize",
     "Interval"}

EndpointHeading(b, p) ==
    CASE b = "Number" -> <<" ", "#">>
      [] b = "Interval" -> <<"I", "v">>
      [] b = "MaxPacketSize" ->
            PadCentre(<<"M", "a", "x", "P", "k", "B">>, PadGet(p, b, 0))
      [] b = "Direction" -> PadCentre(<<"D", "i", "r">>, PadGet(p, b, 0))
      [] b = "TransferType" ->
            PadCentre(<<"T", "r", "a", "n", "s", "f", "e", "r", "T">>, PadGet(p, b, 0))
      [] b = "SyncType" -> PadCentre(<<"S", "y", "n", "c", "T">>, PadGet(p, b, 0))
      [] b = "UsageType" -> PadCentre(<<"U", "s", "a", "g", "e", "T">>, PadGet(p, b, 0))

EndpointPaddedBlocks ==
    {"TransferType", "SyncType", "UsageType", "Direction", "MaxPacketSize"}

\* Direction's Display text
DirectionText(dir) == IF dir = "In" THEN <<"I", "n">> ELSE <<"O", "u", "t">>

EndpointValueText(b, e) ==
    CASE b = "TransferType" -> e.transfer_type
      [] b = "SyncType" -> e.sync_type
      [] b = "UsageType" -> e.usage_type
      [] b = "Direction" -> DirectionText(e.address.direction)
      [] b = "MaxPacketSize" -> e.max_packet_string

EndpointGeneratePadding(es) ==
    [b \in EndpointPaddedBlocks |->
        Max(ByteLen(EndpointHeading(b, EmptyPad)),
            MaxOf([k \in 1..Len(es) |-> ByteLen(EndpointValueText(b, es[k]))]))]

EndpointValueIsString(b) == b \in {"TransferType", "SyncType", "UsageType", "Direction"}

EndpointFormatValue(b, e, p, s) ==
    CASE b = "Number" -> Some(PadRightAlign(DecStr(e.address.number), 2))
      [] b = "Interval" -> Some(PadRightAlign(DecStr(e.interval), 2))
      [] OTHER -> Some(PadLeftAlign(EndpointValueText(b, e), PadGet(p, b, 0)))

EndpointDefaultBlocks(verbose) ==
    IF verbose
    THEN <<"Number", "Direction", "TransferType", "SyncType", "UsageType", "Interval",
           "MaxPacketSize">>
    ELSE <<"Number", "Direction", "TransferType", "SyncType", "UsageType",
           "MaxPacketSize">>

(***************************************************************************)
(* render_value and render_heading, per entity type.  A block whose        *)
(* format_value is None adds no cell.                                      *)
(***************************************************************************)
RECURSIVE Cells(_)
Cells(opts) ==
    IF opts = <<>> THEN <<>>
    ELSE (IF IsSome(Head(opts)) THEN <<Unwrap(Head(opts))>> ELSE <<>>) \o Cells(Tail(opts))

RenderValue(level, d, blocks, p, s) ==
    Cells([k \in 1..Len(blocks) |->
        CASE level = "bus" -> BusFormatValue(blocks[k], d, p, s)
          [] level = "device" -> DeviceFormatValue(blocks[k], d, p, s)
          [] level = "config" -> ConfigFormatValue(blocks[k], d, p, s)
          [] level = "interface" -> InterfaceFormatValue(blocks[k], d, p, s)
          [] level = "endpoint" -> EndpointFormatValue(blocks[k], d, p, s)])

RenderHeading(level, blocks, p) ==
    [k \in 1..Len(blocks) |->
        CASE level = "bus" -> BusHeading(blocks[k], p)
          [] level = "device" -> DeviceHeading(blocks[k], p)
          [] level = "config" -> ConfigHeading(blocks[k], p)
          [] level = "interface" -> InterfaceHeading(blocks[k], p)
          [] level = "endpoint" -> EndpointHeading(blocks[k], p)]

(***************************************************************************)
(* Sort: sort_by_key is a stable sort.                                     *)
(***************************************************************************)
\* A key that is the device number whatever the policy.
SortKey_AlwaysNumber(sort, d) == d.location_id.number

SortKey(sort, d) ==
    IF sort = "BranchPosition" THEN d.branch_position ELSE d.location_id.number

\* x put behind every element of the sorted sequence whose key is not larger.
RECURSIVE InsertByKey(_, _, _)
InsertByKey(sort, x, sorted) ==
    IF sorted = <<>> THEN <<x>>
    ELSE IF SortKey(sort, Head(sorted)) <= SortKey(sort, x)
         THEN <<Head(sorted)>> \o InsertByKey(sort, x, Tail(sorted))
         ELSE <<x>> \o sorted

RECURSIVE StableSort(_, _, _)
StableSort(sort, ds, acc) ==
    IF ds = <<>> THEN acc
    ELSE StableSort(sort, Tail(ds), InsertByKey(sort, Head(ds), acc))

\* A sort that orders by branch position whatever the policy.
SortDevices_IgnorePolicy(sort, ds) == StableSort("BranchPosition", ds, <<>>)

SortDevices(sort, ds) ==
    IF sort \in {"BranchPosition", "DeviceNumber"} THEN StableSort(sort, ds, <<>>) ELSE ds

SortDevicesRef(sort, ds) ==
    IF sort \in {"BranchPosition", "DeviceNumber"} THEN StableSort(sort, ds, <<>>) ELSE ds

\* A sort done in the vector it was handed.
AfterSortDevices_InPlace(sort, d) == SortDevices(sort, d)

\* The vector d after sort_devices(d) or sort_devices_ref(d): both sort
\* d.to_owned(), a copy, and d is borrowed immutably.
AfterSortDevices(sort, d) == d

(***************************************************************************)
(* TreeData and generate_tree_data.                                        *)
(***************************************************************************)
DefaultTreeData == [branch_length |-> 0, trunk_index |-> 0, depth |-> 0, prefix |-> <<>>]

\* settings.icons.map_or(get_ascii_tree_icon(icon), |i| i.get_tree_icon(icon)):
\* one glyph of the line, from the ascii set or from the icon theme.
TreeIcon(icon, s) == <<IF s.icons THEN "theme" ELSE "ascii", icon>>

\* The pass-down glyph with the two cases exchanged.
PassIcon_Swapped(current_tree, index) ==
    IF index + 1 /= current_tree.branch_length THEN "TreeBlank" ELSE "TreeLine"

\* What generate_tree_data appends to the prefix it passes down.
PassIcon(current_tree, index) ==
    IF index + 1 /= current_tree.branch_length THEN "TreeLine" ELSE "TreeBlank"

\* A pass-down that starts the prefix afresh instead of extending the parent's.
GenerateTreeData_FreshPrefix(current_tree, branch_length, index, s) ==
    [branch_length |-> branch_length,
     trunk_index |-> index % 256,
     depth |-> current_tree.depth + 1,
     prefix |->
        IF s.tree /\ current_tree.depth > 0
        THEN <<TreeIcon(PassIcon(current_tree, index), s)>>
        ELSE <<>>]

\* A pass-down that leaves the depth where the parent had it.
GenerateTreeData_SameDepth(current_tree, branch_length, index, s) ==
    [branch_length |-> branch_length,
     trunk_index |-> index % 256,
     depth |-> current_tree.depth,
     prefix |->
        IF s.tree /\ current_tree.depth > 0
        THEN current_tree.prefix \o <<TreeIcon(PassIcon(current_tree, index), s)>>
        ELSE current_tree.prefix]

GenerateTreeData(current_tree, branch_length, index, s) ==
    [branch_length |-> branch_length,
     trunk_index |-> index % 256,
     depth |-> current_tree.depth + 1,
     prefix |->
        IF s.tree /\ current_tree.depth > 0
        THEN current_tree.prefix \o <<TreeIcon(PassIcon(current_tree, index), s)>>
        ELSE current_tree.prefix]

\* The record of one call of generate_tree_data, kept in the output trace.
CallEvent(current_tree, branch_length, index, s) ==
    [kind |-> "call", parent |-> current_tree, branch_length |-> branch_length,
     index |-> index,
     result |-> GenerateTreeData(current_tree, branch_length, index, s)]

(***************************************************************************)
(* The printers.  Each returns the trace it produces: the lines written,   *)
(* in order, interleaved with the calls of generate_tree_data.  A line is  *)
(*   lead   the glyphs printed first (the prefix with this row's edge),    *)
(*   term   the terminator glyph of a tree row (None on other lines),      *)
(*   indent the spaces between these and the text,                         *)
(*   cells  the cells, which the printer joins by one space,               *)
(* and, for the checks, the row's display index i, the length n of the     *)
(* batch, the draw state and padding table it was printed with, the path   *)
(* of display indices from the bus down, and the entity's name and number. *)
(***************************************************************************)
RECURSIVE Concat(_)
Concat(seqs) == IF seqs = <<>> THEN <<>> ELSE Head(seqs) \o Concat(Tail(seqs))

Verbose(s) == s.verbosity >= MAX_VERBOSITY \/ s.more

\* The edge drawn in front of row i of a batch printed with draw state tree.
EdgeIcon_OffByOne(i, tree) ==
    IF i /= tree.branch_length THEN "TreeEdge" ELSE "TreeCorner"

EdgeIcon(i, tree) ==
    IF i + 1 /= tree.branch_length THEN "TreeEdge" ELSE "TreeCorner"

\* The prefix of a row in tree mode.
RowPrefix(i, tree, s) ==
    IF tree.depth > 0 THEN tree.prefix \o <<TreeIcon(EdgeIcon(i, tree), s)>>
    ELSE tree.prefix

Terminator(level, d) ==
    CASE level = "device" -> "TreeDeviceTerminator"
      [] level = "config" -> "TreeConfigurationTerminator"
      [] level = "interface" -> "TreeInterfaceTerminator"
      [] level = "endpoint" -> <<"Endpoint", d.address.direction>>

\* An indent that starts one level lower.
FlatIndent_OneLevelLess(level) ==
    CASE level = "device" -> 0
      [] level = "config" -> 0
      [] level = "interface" -> 2
      [] level = "endpoint" -> 4

FlatIndent(level) ==
    CASE level = "device" -> 0
      [] level = "config" -> 2
      [] level = "interface" -> 4
      [] level = "endpoint" -> 6

Line(kind, level, lead, term, indent, cells, i, n, tree, p, path, d) ==
    [kind |-> kind, level |-> level, lead |-> lead, term |-> term, indent |-> indent,
     cells |-> cells, i |-> i, n |-> n, tree |-> tree, pad |-> p, path |-> path,
     name |-> IF level = "endpoint" THEN <<>> ELSE d.name,
     number |-> IF level = "device" THEN d.location_id.number ELSE 0]

\* The heading line (for the first row, when headings are on) and the value line
\* of row i of a batch of n, at the device, configuration, interface or endpoint
\* level.
Rows(level, i, n, d, blocks, p, s, tree, path) ==
    IF s.tree
    THEN (IF s.headings /\ i = 0
          THEN <<Line("heading", level, RowPrefix(i, tree, s), None, 2,
                      RenderHeading(level, blocks, p), i, n, tree, p, path, d)>>
          ELSE <<>>)
         \o <<Line("value", level, RowPrefix(i, tree, s),
                   Some(TreeIcon(Terminator(level, d), s)), 1,
                   RenderValue(level, d, blocks, p, s), i, n, tree, p, path, d)>>
    ELSE (IF s.headings /\ i = 0
          THEN <<Line("heading", level, <<>>, None, FlatIndent(level),
                      RenderHeading(level, blocks, p), i, n, tree, p, path, d)>>
          ELSE <<>>)
         \o <<Line("value", level, <<>>, None, FlatIndent(level),
                   RenderValue(level, d, blocks, p, s), i, n, tree, p, path, d)>>

EndpointPad(endpoints, s) ==
    IF ~s.no_padding THEN EndpointGeneratePadding(endpoints) ELSE EmptyPad

PrintEndpoints(endpoints, blocks, s, tree, path) ==
    LET p == EndpointPad(endpoints, s) IN
    Concat([k \in 1..Len(endpoints) |->
        Rows("endpoint", k - 1, Len(endpoints), endpoints[k], blocks, p, s, tree,
             path \o <<k - 1>>)])

InterfacePad(interfaces, s) ==
    IF ~s.no_padding THEN InterfaceGeneratePadding(interfaces) ELSE EmptyPad

PrintInterfaces(interfaces, blocks, s, tree, path) ==
    LET p == InterfacePad(interfaces, s) IN
    Concat([k \in 1..Len(interfaces) |->
        Rows("interface", k - 1, Len(interfaces), interfaces[k], blocks[1], p, s, tree,
             path \o <<k - 1>>)
        \o (IF s.verbosity >= 3
            THEN <<CallEvent(tree, Len(interfaces[k].endpoints), k - 1, s)>>
                 \o PrintEndpoints(interfaces[k].endpoints, blocks[2], s,
                        GenerateTreeData(tree, Len(interfaces[k].endpoints), k - 1, s),
                        path \o <<k - 1>>)
            ELSE <<>>)])

ConfigPad(configs, s) ==
    IF ~s.no_padding THEN ConfigGeneratePadding(configs) ELSE EmptyPad

PrintConfigurations(configs, blocks, s, tree, path) ==
    LET p == ConfigPad(configs, s) IN
    Concat([k \in 1..Len(configs) |->
        Rows("config", k - 1, Len(configs), configs[k], blocks[1], p, s, tree,
             path \o <<k - 1>>)
        \o (IF s.verbosity >= 2
            THEN <<CallEvent(tree, Len(configs[k].interfaces), k - 1, s)>>
                 \o PrintInterfaces(configs[k].interfaces, <<blocks[2], blocks[3]>>, s,
                        GenerateTreeData(tree, Len(configs[k].interfaces), k - 1, s),
                        path \o <<k - 1>>)
            ELSE <<>>)])

\* The block lists of the levels below a device.
LowerBlocks(s) ==
    <<IF IsSome(s.config_blocks) THEN Unwrap(s.config_blocks)
      ELSE ConfigDefaultBlocks(Verbose(s)),
      IF IsSome(s.interface_blocks) THEN Unwrap(s.interface_blocks)
      ELSE InterfaceDefaultBlocks(Verbose(s)),
      IF IsSome(s.endpoint_blocks) THEN Unwrap(s.endpoint_blocks)
      ELSE EndpointDefaultBlocks(Verbose(s))>>

\* device.devices.as_ref().map_or(0, |d| d.len())
NumChildren(device) == IF IsSome(device.devices) THEN Len(Unwrap(device.devices)) ELSE 0

\* The branch length a device passes to its configurations.
ConfigBranchLength_OnlyConfigs(device) ==
    Len(Unwrap(device.extra).configurations)

ConfigBranchLength(device) ==
    Len(Unwrap(device.extra).configurations) + NumChildren(device)

\* The configurations of display row i printed at every verbosity.
DeviceConfigurations_AnyVerbosity(device, i, s, tree, path) ==
    IF IsSome(device.extra)
    THEN <<CallEvent(tree, ConfigBranchLength(device), i, s)>>
         \o PrintConfigurations(Unwrap(device.extra).configurations, LowerBlocks(s), s,
                GenerateTreeData(tree, ConfigBranchLength(device), i, s), path)
    ELSE <<>>

\* The configurations of display row i, when the device has its extra block and
\* verbosity >= 1.
DeviceConfigurations(device, i, s, tree, path) ==
    IF IsSome(device.extra) /\ s.verbosity >= 1
    THEN <<CallEvent(tree, ConfigBranchLength(device), i, s)>>
         \o PrintConfigurations(Unwrap(device.extra).configurations, LowerBlocks(s), s,
                GenerateTreeData(tree, ConfigBranchLength(device), i, s), path)
    ELSE <<>>

\* SPUSBDataType::flatten_devices: references to every device, parents first.
RECURSIVE FlattenDevices(_)
FlattenDevices(ds) ==
    Concat([k \in 1..Len(ds) |->
        <<ds[k]>> \o (IF IsSome(ds[k].devices) THEN FlattenDevices(Unwrap(ds[k].devices))
                      ELSE <<>>)])

SpFlattenDevices(sp) ==
    Concat([k \in 1..Len(sp.buses) |->
        IF IsSome(sp.buses[k].devices) THEN FlattenDevices(Unwrap(sp.buses[k].devices))
        ELSE <<>>])

\* The padding table of a batch of devices, computed over every device of the
\* tree, as a table cached for the whole pass would be.
DevicePad_Global(devices, s) ==
    IF ~s.no_padding THEN DeviceGeneratePadding(SpFlattenDevices(sp_usb)) ELSE EmptyPad

DevicePad(devices, s) ==
    IF ~s.no_padding THEN DeviceGeneratePadding(devices) ELSE EmptyPad

RECURSIVE PrintDevices(_, _, _, _, _)
\* print_devices walking down the child devices before the configurations.
PrintDevices_ChildrenFirst(devices, db, s, tree, path) ==
    LET p == DevicePad(devices, s)
        sorted == SortDevices(s.sort_devices, devices)
    IN Concat([k \in 1..Len(sorted) |->
        Rows("device", k - 1, Len(devices), sorted[k], db, p, s, tree, path \o <<k - 1>>)
        \o (IF IsSome(sorted[k].devices)
            THEN <<CallEvent(tree, Len(Unwrap(sorted[k].devices)), k - 1, s)>>
                 \o PrintDevices(Unwrap(sorted[k].devices), db, s,
                        GenerateTreeData(tree, Len(Unwrap(sorted[k].devices)), k - 1, s),
                        path \o <<k - 1>>)
            ELSE <<>>)
        \o DeviceConfigurations(sorted[k], k - 1, s, tree, path \o <<k - 1>>)])

PrintDevices(devices, db, s, tree, path) ==
    LET p == DevicePad(devices, s)
        sorted == SortDevices(s.sort_devices, devices)
    IN Concat([k \in 1..Len(sorted) |->
        Rows("device", k - 1, Len(devices), sorted[k], db, p, s, tree, path \o <<k - 1>>)
        \o DeviceConfigurations(sorted[k], k - 1, s, tree, path \o <<k - 1>>)
        \o (IF IsSome(sorted[k].devices)
            THEN <<CallEvent(tree, Len(Unwrap(sorted[k].devices)), k - 1, s)>>
                 \o PrintDevices(Unwrap(sorted[k].devices), db, s,
                        GenerateTreeData(tree, Len(Unwrap(sorted[k].devices)), k - 1, s),
                        path \o <<k - 1>>)
            ELSE <<>>)])

BusPad(buses, s) ==
    IF ~s.no_padding THEN BusGeneratePadding(buses) ELSE EmptyPad

\* The device blocks print_sp_usb uses.
SpUsbDeviceBlocks(s) ==
    IF IsSome(s.device_blocks) THEN Unwrap(s.device_blocks)
    ELSE IF Verbose(s) THEN DeviceDefaultBlocks(TRUE)
    ELSE IF s.tree THEN DefaultDeviceTreeBlocks
    ELSE DeviceDefaultBlocks(FALSE)

BusLine(kind, lead, term, indent, cells, i, n, p, bus) ==
    [kind |-> kind, level |-> "bus", lead |-> lead, term |-> term, indent |-> indent,
     cells |-> cells, i |-> i, n |-> n, tree |-> DefaultTreeData, pad |-> p,
     path |-> <<i>>, name |-> bus.name, number |-> bus.usb_bus_number]

BlankLine ==
    [kind |-> "blank", level |-> "bus", lead |-> <<>>, term |-> None, indent |-> 0,
     cells |-> <<>>, i |-> 0, n |-> 0, tree |-> DefaultTreeData, pad |-> EmptyPad,
     path |-> <<>>, name |-> <<>>, number |-> 0]

\* print_sp_usb with the blank line between the buses only.
PrintSpUsb_BlankBetween(sp, s) ==
    LET bb == IF IsSome(s.bus_blocks) THEN Unwrap(s.bus_blocks)
              ELSE BusDefaultBlocks(Verbose(s))
        db == SpUsbDeviceBlocks(s)
        base_tree == DefaultTreeData
        p == BusPad(sp.buses, s)
        n == Len(sp.buses)
    IN Concat([k \in 1..n |->
        (IF s.headings
         THEN <<BusLine("heading", <<>>, None, IF s.tree THEN 2 ELSE 0,
                        RenderHeading("bus", bb, p), k - 1, n, p, sp.buses[k])>>
         ELSE <<>>)
        \o <<BusLine("value", IF s.tree THEN base_tree.prefix ELSE <<>>,
                     IF s.tree THEN Some(TreeIcon("TreeBusStart", s)) ELSE None,
                     IF s.tree THEN 1 ELSE 0,
                     RenderValue("bus", sp.buses[k], bb, p, s), k - 1, n, p,
                     sp.buses[k])>>
        \o (IF IsSome(sp.buses[k].devices)
            THEN <<CallEvent(base_tree, Len(Unwrap(sp.buses[k].devices)), k - 1, s)>>
                 \o PrintDevices(Unwrap(sp.buses[k].devices), db, s,
                        GenerateTreeData(base_tree, Len(Unwrap(sp.buses[k].devices)),
                                         k - 1, s),
                        <<k - 1>>)
            ELSE <<>>)
        \o (IF k < n THEN <<BlankLine>> ELSE <<>>)])

PrintSpUsb(sp, s) ==
    LET bb == IF IsSome(s.bus_blocks) THEN Unwrap(s.bus_blocks)
              ELSE BusDefaultBlocks(Verbose(s))
        db == SpUsbDeviceBlocks(s)
        base_tree == DefaultTreeData
        p == BusPad(sp.buses, s)
        n == Len(sp.buses)
    IN Concat([k \in 1..n |->
        (IF s.headings
         THEN <<BusLine("heading", <<>>, None, IF s.tree THEN 2 ELSE 0,
                        RenderHeading("bus", bb, p), k - 1, n, p, sp.buses[k])>>
         ELSE <<>>)
        \o <<BusLine("value", IF s.tree THEN base_tree.prefix ELSE <<>>,
                     IF s.tree THEN Some(TreeIcon("TreeBusStart", s)) ELSE None,
                     IF s.tree THEN 1 ELSE 0,
                     RenderValue("bus", sp.buses[k], bb, p, s), k - 1, n, p,
                     sp.buses[k])>>
        \o (IF IsSome(sp.buses[k].devices)
            THEN <<CallEvent(base_tree, Len(Unwrap(sp.buses[k].devices)), k - 1, s)>>
                 \o PrintDevices(Unwrap(sp.buses[k].devices), db, s,
                        GenerateTreeData(base_tree, Len(Unwrap(sp.buses[k].devices)),
                                         k - 1, s),
                        <<k - 1>>)
            ELSE <<>>)
        \o <<BlankLine>>])

PrintFlattenedDevices(devices, s) ==
    LET db == IF IsSome(s.device_blocks) THEN Unwrap(s.device_blocks)
              ELSE DeviceDefaultBlocks(Verbose(s))
        p == DevicePad(devices, s)
        sorted == SortDevicesRef(s.sort_devices, devices)
        n == Len(devices)
    IN (IF s.headings
        THEN <<[kind |-> "heading", level |-> "device", lead |-> <<>>, term |-> None,
                indent |-> 0, cells |-> RenderHeading("device", db, p), i |-> 0,
                n |-> n, tree |-> DefaultTreeData, pad |-> p, path |-> <<>>,
                name |-> <<>>, number |-> 0]>>
        ELSE <<>>)
       \o Concat([k \in 1..Len(sorted) |->
            <<Line("value", "device", <<>>, None, 0,
                   RenderValue("device", sorted[k], db, p, s), k - 1, n,
                   DefaultTreeData, p, <<k - 1>>, sorted[k])>>
            \o DeviceConfigurations(sorted[k], k - 1, s, DefaultTreeData, <<k - 1>>)])

\* print, for text output.
PrintText(sp, s) ==
    IF s.tree \/ s.group_devices = "Bus" THEN PrintSpUsb(sp, s)
    ELSE PrintFlattenedDevices(SpFlattenDevices(sp), s)

(***************************************************************************)
(* PrintSettings.                                                          *)
(***************************************************************************)
PrintSettings(tree, no_padding, headings, verbosity, group, sort, icons, decimal) ==
    [no_padding |-> no_padding, decimal |-> decimal, tree |-> tree,
     hide_buses |-> FALSE, sort_devices |-> sort, sort_buses |-> FALSE,
     group_devices |-> group, headings |-> headings, verbosity |-> verbosity,
     more |-> FALSE, json |-> FALSE, mask_serials |-> None,
     device_blocks |-> None, bus_blocks |-> None, config_blocks |-> None,
     interface_blocks |-> None, endpoint_blocks |-> None, icons |-> icons]

\* Tree, bus-grouped and flat output at every verbosity that prints another
\* level, with and without headings; and, with every level printed, each other
\* setting in turn: no padding, the verbose blocks, the sorts, icons, decimal.
SettingsSet ==
    {PrintSettings(m[1], FALSE, h, v, m[2], "BranchPosition", FALSE, FALSE) :
        m \in {<<TRUE, "NoGroup">>, <<FALSE, "Bus">>, <<FALSE, "NoGroup">>},
        h \in BOOLEAN, v \in 0..3}
    \cup
    {PrintSettings(tr, np, TRUE, v, "Bus", "BranchPosition", FALSE, FALSE) :
        tr \in BOOLEAN, np \in BOOLEAN, v \in {3, MAX_VERBOSITY}}
    \cup
    {PrintSettings(tr, FALSE, TRUE, 3, "Bus", so, ic, dec) :
        tr \in BOOLEAN, so \in {"BranchPosition", "DeviceNumber", "NoSort"},
        ic \in BOOLEAN, dec \in {FALSE}}
    \cup
    {PrintSettings(tr, FALSE, TRUE, 3, "Bus", "BranchPosition", FALSE, TRUE) :
        tr \in BOOLEAN}
    \cup
    {PrintSettings(FALSE, FALSE, FALSE, 0, "NoGroup", so, FALSE, FALSE) :
        so \in {"DeviceNumber", "NoSort"}}
    \cup
    {[PrintSettings(tr, FALSE, FALSE, 0, "NoGroup", "BranchPosition", FALSE, FALSE)
        EXCEPT !.json = TRUE] : tr \in BOOLEAN}

(***************************************************************************)
(* The trees printed.  A tree has one bus or MaxBuses buses.  Bus 1 holds   *)
(* n1 devices, of which device h1 (if any) is a hub of n2 devices, of      *)
(* which the first (if h2 = 1) is a hub of n3 devices.  Names, numbers,    *)
(* ports, optional fields and configurations differ by depth and place, so *)
(* that                                                                    *)
(* batches differ in width, stored order differs from sorted order, and    *)
(* devices with and without the extra block, children and configurations   *)
(* all occur.                                                              *)
(***************************************************************************)
Endpoints(n) == [k \in 1..n |-> USBEndpoint(k, IF k % 2 = 1 THEN "In" ELSE "Out")]

Interfaces(n) ==
    [k \in 1..n |-> USBInterface(k - 1, IF k = 1 THEN Txt7 ELSE Txt2, Endpoints(3 - k))]

Configurations(n) ==
    [k \in 1..n |->
        USBConfiguration(k, IF k = 1 THEN Txt2 ELSE Txt5, Interfaces(IF k = 1 THEN 2 ELSE 1))]

DeviceName(depth, j) ==
    CASE depth = 1 -> IF j % 2 = 1 THEN Txt7 ELSE Txt9
      [] depth = 2 -> IF j % 2 = 1 THEN Txt1 ELSE Txt3
      [] OTHER -> IF j % 2 = 1 THEN Txt5 ELSE TxtWide

\* Device j of n at the given depth, below the ports in parent_positions.
TreeDevice(depth, j, n, parent_positions, devices) ==
    USBDevice(
        IF depth = 2 THEN 20 + j ELSE 10 * depth + (n - j + 1),
        DeviceName(depth, j),
        parent_positions \o <<IF depth = 2 THEN n - j + 1 ELSE j>>,
        IF j % 2 = 1 THEN Some(IF depth = 1 THEN Txt9 ELSE Txt2) ELSE None,
        IF j % 2 = 1 THEN Some(j) ELSE None,
        IF j % 2 = 1
        THEN Some(USBDeviceExtra(IF depth = 2 THEN Some(Txt7) ELSE None,
                                 Configurations(3 - depth)))
        ELSE None,
        devices)

LeafDevices(j) == IF j % 2 = 1 THEN None ELSE Some(<<>>)

Shapes ==
    {sh \in [n1 : 0..MaxKids, h1 : 0..MaxKids, n2 : 1..MaxKids, h2 : {0, 1},
             n3 : {1, MaxKids}] :
        /\ sh.h1 <= sh.n1
        /\ (sh.h1 = 0 => sh.n2 = 1 /\ sh.h2 = 0)
        /\ (sh.h2 = 0 => sh.n3 = 1)}

Level3(sh, pos) ==
    [j \in 1..sh.n3 |-> TreeDevice(3, j, sh.n3, pos, LeafDevices(j))]

Level2(sh, pos) ==
    [j \in 1..sh.n2 |->
        TreeDevice(2, j, sh.n2, pos,
            IF j = sh.h2 THEN Some(Level3(sh, pos \o <<sh.n2 - j + 1>>))
            ELSE LeafDevices(j))]

Level1(sh) ==
    [j \in 1..sh.n1 |->
        TreeDevice(1, j, sh.n1, <<>>,
            IF j = sh.h1 THEN Some(Level2(sh, <<j>>)) ELSE LeafDevices(j))]

\* Bus k of a tree of shape sh.
TreeBus(sh, k) ==
    CASE k = 1 -> USBBus(2, Txt3, Txt9, Some(Level1(sh)))
      [] k = 2 -> USBBus(1, Txt7, Txt2, None)
      [] k = 3 -> USBBus(3, Txt1, Txt1,
                         Some(<<USBDevice(31, Txt2, <<1>>, None, None, None,
                                    Some(<<USBDevice(32, Txt14, <<1, 1>>, Some(Txt3),
                                               Some(255), None, None)>>))>>))
      [] OTHER -> USBBus(k, Txt2, Txt2, Some(<<>>))

Trees ==
    {[buses |-> [k \in 1..nb |-> TreeBus(sh, k)]] : sh \in Shapes, nb \in {1, MaxBuses}}

(***************************************************************************)
(* The batches of the padding check: up to MaxBatch entities of one type.  *)
(* Devices vary one group of fields at a time.                             *)
(***************************************************************************)
Texts == {<<>>, Txt3, TxtWide, Txt14}

\* n times the port p
TreePositionsSet == {[k \in 1..n |-> p] : n \in 0..MaxTPosLen, p \in {1, 10}}

PadDevices ==
    {USBDevice(1, nm, <<1>>, None, None, None, None) : nm \in Texts}
    \cup {USBDevice(1, Txt1, <<1>>, Some(tx), Some(7),
                    Some(USBDeviceExtra(Some(tx), <<>>)), None) : tx \in Texts}
    \cup {USBDevice(1, Txt1, <<1>>, None, None, Some(USBDeviceExtra(None, <<>>)), None)}
    \cup {USBDevice(1, Txt1, tp, None, None, None, None) : tp \in TreePositionsSet}

\* Buses of every name and host controller, and one with a long path.
PadBuses ==
    {USBBus(1, nm, hc, None) : nm \in Texts, hc \in Texts}
    \cup {[USBBus(1, Txt1, Txt1, None) EXCEPT !.path = Txt14]}

PadConfigurations == {USBConfiguration(1, nm, <<>>) : nm \in Texts}

PadInterfaces ==
    {[USBInterface(0, nm, <<>>) EXCEPT !.driver = dr, !.syspath = dr] :
        nm \in Texts, dr \in {None, Some(Txt14)}}

PadEndpoints == {USBEndpoint(1, dir) : dir \in {"In", "Out"}}

SeqsUpTo(S, n) == UNION {[1..m -> S] : m \in 0..n}

Batches ==
    {[level |-> "device", items |-> b] : b \in SeqsUpTo(PadDevices, MaxBatch)}
    \cup {[level |-> "bus", items |-> b] : b \in SeqsUpTo(PadBuses, MaxBatch)}
    \cup {[level |-> "config", items |-> b] : b \in SeqsUpTo(PadConfigurations, MaxBatch)}
    \cup {[level |-> "interface", items |-> b] : b \in SeqsUpTo(PadInterfaces, MaxBatch)}
    \cup {[level |-> "endpoint", items |-> b] : b \in SeqsUpTo(PadEndpoints, MaxBatch)}

NoBatch == [level |-> "none", items |-> <<>>]

\* Block::generate_padding of the batch's entity type
GeneratePadding(level, items) ==
    CASE level = "device" -> DeviceGeneratePadding(items)
      [] level = "bus" -> BusGeneratePadding(items)
      [] level = "config" -> ConfigGeneratePadding(items)
      [] level = "interface" -> InterfaceGeneratePadding(items)
      [] level = "endpoint" -> EndpointGeneratePadding(items)

(***************************************************************************)
(* Spec: a tree and settings are given and print writes the text output.   *)
(***************************************************************************)
NoArg == [fn |-> "none"]
NoFmt == [v |-> 0, decimal |-> FALSE]
NoFmtOut == [u16 |-> None, u8 |-> None, code |-> None]

Init ==
    /\ sp_usb \in Trees
    /\ settings \in SettingsSet
    /\ out = <<>>
    /\ calls = <<>>
    /\ phase = "ready"
    /\ batch = NoBatch
    /\ pad = EmptyPad
    /\ fmt_in = NoFmt
    /\ fmt_out = NoFmtOut
    /\ arg = NoArg
    /\ ret = None
    /\ filter = None
    /\ steps = <<>>

IsCall(e) == e.kind = "call"
IsLine(e) == e.kind /= "call"

\* The devices of one level after print_devices ran over them and below
\* them: what its sort_devices call left in the vector.
RECURSIVE DevicesAfterPrint(_, _)
DevicesAfterPrint(devices, s) ==
    LET d == AfterSortDevices(s.sort_devices, devices)
    IN [k \in DOMAIN d |->
          [d[k] EXCEPT !.devices =
              IF IsSome(@) THEN Some(DevicesAfterPrint(Unwrap(@), s)) ELSE @]]

\* The tree after print: print_sp_usb hands the devices of every bus to
\* print_devices; print_flattened_devices sorts a vector of references.
TreeAfterPrint(sp, s) ==
    IF s.tree \/ s.group_devices = "Bus"
    THEN [buses |-> [k \in DOMAIN sp.buses |->
            [sp.buses[k] EXCEPT !.devices =
                IF IsSome(@) THEN Some(DevicesAfterPrint(Unwrap(@), s)) ELSE @]]]
    ELSE sp

\* print(sp_usb, settings) without json
PrintCall ==
    /\ phase = "ready"
    /\ ~settings.json
    /\ arg' = [fn |-> "print", sp_usb |-> sp_usb, settings |-> settings]
    /\ LET trace == PrintText(sp_usb, settings)
       IN /\ out' = SelectSeq(trace, IsLine)
          /\ calls' = SelectSeq(trace, IsCall)
    /\ sp_usb' = TreeAfterPrint(sp_usb, settings)
    /\ phase' = "printed"
    /\ UNCHANGED <<settings, batch, pad, fmt_in, fmt_out, ret, filter, steps>>

\* What print serializes with json: the tree, or the flattened devices.
JsonValue(sp, s) ==
    IF s.tree \/ s.group_devices = "Bus" THEN sp ELSE SpFlattenDevices(sp)

JsonLine(sp, s) ==
    [kind |-> "json", level |-> "json", lead |-> <<>>, term |-> None, indent |-> 0,
     cells |-> <<JsonValue(sp, s)>>, i |-> 0, n |-> 0, tree |-> DefaultTreeData,
     pad |-> EmptyPad, path |-> <<>>, name |-> <<>>, number |-> 0]

\* print(sp_usb, settings) with json:
\* println!("{}", serde_json::to_string_pretty(..).unwrap()).  The
\* serialization returns Ok or Err; unwrap() of an Err panics.
PrintJson ==
    /\ phase = "ready"
    /\ settings.json
    /\ arg' = [fn |-> "print", sp_usb |-> sp_usb, settings |-> settings]
    /\ \E result \in {"Ok", "Err"} :
          IF result = "Ok"
          THEN out' = <<JsonLine(sp_usb, settings)>> /\ phase' = "printed_json"
          ELSE out' = out /\ phase' = "panicked"
    /\ UNCHANGED <<sp_usb, settings, calls, batch, pad, fmt_in, fmt_out,
                   ret, filter, steps>>

Next == PrintCall \/ PrintJson

Spec == Init /\ [][Next]_vars

(***************************************************************************)
(* SpecPad: generate_padding applied to a batch.                           *)
(***************************************************************************)
EmptyTree == [buses |-> <<>>]

InitPad ==
    /\ sp_usb = EmptyTree
    /\ settings = PrintSettings(FALSE, FALSE, FALSE, 0, "NoGroup", "NoSort", FALSE, FALSE)
    /\ out = <<>>
    /\ calls = <<>>
    /\ phase = "pad_ready"
    /\ batch \in Batches
    /\ pad = EmptyPad
    /\ fmt_in = NoFmt
    /\ fmt_out = NoFmtOut
    /\ arg = NoArg
    /\ ret = None
    /\ filter = None
    /\ steps = <<>>

ComputePadding ==
    /\ phase = "pad_ready"
    /\ pad' = GeneratePadding(batch.level, batch.items)
    /\ phase' = "padded"
    /\ UNCHANGED <<sp_usb, settings, out, calls, batch, fmt_in, fmt_out,
                 arg, ret, filter, steps>>

NextPad == ComputePadding

SpecPad == InitPad /\ [][NextPad]_vars

(***************************************************************************)
(* SpecFmt: the numeric formatters applied to an id or code.               *)
(***************************************************************************)
InitFmt ==
    /\ sp_usb = EmptyTree
    /\ settings = PrintSettings(FALSE, FALSE, FALSE, 0, "NoGroup", "NoSort", FALSE, FALSE)
    /\ out = <<>>
    /\ calls = <<>>
    /\ phase = "fmt"
    /\ batch = NoBatch
    /\ pad = EmptyPad
    /\ fmt_in \in [v : 0..U16Max, decimal : BOOLEAN]
    /\ fmt_out = NoFmtOut
    /\ arg = NoArg
    /\ ret = None
    /\ filter = None
    /\ steps = <<>>

FmtSettings == [settings EXCEPT !.decimal = fmt_in.decimal]

\* format_base_u16(v, settings)
FormatU16 ==
    /\ phase = "fmt"
    /\ fmt_out.u16 = None
    /\ fmt_out' = [fmt_out EXCEPT !.u16 = Some(FormatBaseU16(fmt_in.v, FmtSettings))]
    /\ UNCHANGED <<sp_usb, settings, out, calls, phase, batch, pad, fmt_in,
                 arg, ret, filter, steps>>

\* format_base_u8(v, settings), for a v that is a u8
FormatU8 ==
    /\ phase = "fmt"
    /\ fmt_in.v <= U8Max
    /\ fmt_out.u8 = None
    /\ fmt_out' = [fmt_out EXCEPT !.u8 = Some(FormatBaseU8(fmt_in.v, FmtSettings))]
    /\ UNCHANGED <<sp_usb, settings, out, calls, phase, batch, pad, fmt_in,
                 arg, ret, filter, steps>>

\* The cells of the 8-bit code columns for the code v: the device's sub-class
\* with the code present and absent, and the interface's sub-class.
FormatCode ==
    /\ phase = "fmt"
    /\ fmt_in.v <= U8Max
    /\ fmt_out.code = None
    /\ fmt_out' = [fmt_out EXCEPT !.code = Some(
            [present |-> Unwrap(DeviceFormatValue("SubClass",
                            USBDevice(1, Txt1, <<1>>, None, Some(fmt_in.v), None, None),
                            EmptyPad, FmtSettings)),
             absent |-> Unwrap(DeviceFormatValue("SubClass",
                            USBDevice(1, Txt1, <<1>>, None, None, None, None),
                            EmptyPad, FmtSettings)),
             interface |-> Unwrap(InterfaceFormatValue("SubClass",
                            [USBInterface(0, Txt1, <<>>) EXCEPT !.sub_class = fmt_in.v],
                            EmptyPad, FmtSettings))])]
    /\ UNCHANGED <<sp_usb, settings, out, calls, phase, batch, pad, fmt_in,
                 arg, ret, filter, steps>>

NextFmt == FormatU16 \/ FormatU8 \/ FormatCode

SpecFmt == InitFmt /\ [][NextFmt]_vars

(***************************************************************************)
(* mask_serial.  The random choices of Scramble and Replace are not        *)
(* picked: the operators give the set of every string the call can leave.  *)
(***************************************************************************)
MaxSerialLen == 4    \* characters of a serial that is masked

LowerLetters ==
    <<"a", "b", "c", "d", "e", "f", "g", "h", "i", "j", "k", "l", "m",
      "n", "o", "p", "q", "r", "s", "t", "u", "v", "w", "x", "y", "z">>
UpperLetters ==
    <<"A", "B", "C", "D", "E", "F", "G", "H", "I", "J", "K", "L", "M",
      "N", "O", "P", "Q", "R", "S", "T", "U", "V", "W", "X", "Y", "Z">>
Digits == <<"0", "1", "2", "3", "4", "5", "6", "7", "8", "9">>
Range(q) == {q[k] : k \in DOMAIN q}

\* rand::distributions::Alphanumeric: a-z, A-Z and 0-9.
Alphanumeric == Range(LowerLetters) \cup Range(UpperLetters) \cup Range(Digits)

\* The characters the model lets the generator draw from Alphanumeric.
DrawnChars == {"a", "z", "Q", "7"}

\* char::to_uppercase of a character of Alphanumeric, and String::to_uppercase.
ToUppercaseChar(c) ==
    IF c \in Range(LowerLetters)
    THEN UpperLetters[CHOOSE k \in DOMAIN LowerLetters : LowerLetters[k] = c]
    ELSE c
ToUppercase(s) == [k \in DOMAIN s |-> ToUppercaseChar(s[k])]

\* MaskSerial::Hide with a mask of four characters whatever the serial.
HideSerial_FourStars(serial) == <<"*", "*", "*", "*">>

\* MaskSerial::Hide: serial.chars().map(|_| '*').collect()
HideSerial(serial) == [k \in DOMAIN serial |-> "*"]

\* MaskSerial::Scramble drawing each character from the generator's alphabet.
ScrambleSerials_FreshChars(serial) ==
    {ToUppercase(draw) : draw \in [DOMAIN serial -> DrawnChars]}

\* MaskSerial::Scramble: each character is chosen among the serial's own
\* characters (unwrap_or('*') is for a choice among none, which a serial
\* with a character to map never gives).
ScrambleSerials(serial) ==
    {[k \in DOMAIN serial |-> serial[pick[k]]] :
        pick \in [DOMAIN serial -> DOMAIN serial]}

\* MaskSerial::Replace without the final to_uppercase().
ReplaceSerials_AsDrawn(serial) == [DOMAIN serial -> DrawnChars]

\* MaskSerial::Replace: serial.chars().count() characters sampled from
\* Alphanumeric, upper-cased.
ReplaceSerials(serial) ==
    {ToUppercase(draw) : draw \in [DOMAIN serial -> DrawnChars]}

MaskedSerials(serial, hide) ==
    CASE hide = "Hide" -> {HideSerial(serial)}
      [] hide = "Scramble" -> ScrambleSerials(serial)
      [] hide = "Replace" -> ReplaceSerials(serial)

\* mask_serial(device, hide, recursive): the devices the call can leave.
RECURSIVE MaskSerial(_, _, _)
RECURSIVE MaskEach(_, _)
\* mask_serial walking down the child devices whatever `recursive` says.
MaskSerial_AlwaysRecursive(device, hide, recursive) ==
    LET serials == IF IsSome(device.serial_num)
                   THEN {Some(m) : m \in MaskedSerials(Unwrap(device.serial_num), hide)}
                   ELSE {None}
        kids == IF IsSome(device.devices)
                THEN {Some(q) : q \in MaskEach(Unwrap(device.devices), hide)}
                ELSE {device.devices}
    IN {[device EXCEPT !.serial_num = sn, !.devices = k] : sn \in serials, k \in kids}

MaskSerial(device, hide, recursive) ==
    LET serials == IF IsSome(device.serial_num)
                   THEN {Some(m) : m \in MaskedSerials(Unwrap(device.serial_num), hide)}
                   ELSE {None}
        kids == IF recursive /\ IsSome(device.devices)
                THEN {Some(q) : q \in MaskEach(Unwrap(device.devices), hide)}
                ELSE {device.devices}
    IN {[device EXCEPT !.serial_num = sn, !.devices = k] : sn \in serials, k \in kids}

\* dd.iter_mut().for_each(|d| mask_serial(d, hide, recursive))
MaskEach(ds, hide) ==
    IF ds = <<>> THEN {<<>>}
    ELSE {<<h>> \o rest : h \in MaskSerial(Head(ds), hide, TRUE),
                          rest \in MaskEach(Tail(ds), hide)}

\* The serials masked: "AB12" and its prefixes and extensions, and one with
\* lower-case and two-byte characters.
SerialText(n) == [k \in 1..n |-> <<"A", "B", "1", "2">>[((k - 1) % 4) + 1]]
MaskDevice(serial, devices) ==
    [USBDevice(1, Txt3, <<1>>, None, None, None, devices) EXCEPT !.serial_num = serial]
MaskDevices ==
    {MaskDevice(sn, None) :
        sn \in {None, Some(<<"x", WideChar>>)}
               \cup {Some(SerialText(n)) : n \in 0..MaxSerialLen}}
    \cup {MaskDevice(sn,
            Some(<<MaskDevice(Some(SerialText(2)), None),
                   MaskDevice(Some(<<"x">>), Some(<<MaskDevice(None, None)>>))>>)) :
            sn \in {None, Some(SerialText(2))}}

(***************************************************************************)
(* SpecMask: mask_serial applied to a device.                              *)
(***************************************************************************)
InitMask ==
    /\ sp_usb = EmptyTree
    /\ settings = PrintSettings(FALSE, FALSE, FALSE, 0, "NoGroup", "NoSort", FALSE, FALSE)
    /\ out = <<>>
    /\ calls = <<>>
    /\ phase = "mask_ready"
    /\ batch = NoBatch
    /\ pad = EmptyPad
    /\ fmt_in = NoFmt
    /\ fmt_out = NoFmtOut
    /\ arg \in [fn : {"mask_serial"}, device : MaskDevices,
                hide : {"Hide", "Scramble", "Replace"}, recursive : BOOLEAN]
    /\ ret = None
    /\ filter = None
    /\ steps = <<>>

\* mask_serial(&mut device, &hide, recursive)
MaskSerialCall ==
    /\ phase = "mask_ready"
    /\ ret' \in {Some(d) : d \in MaskSerial(arg.device, arg.hide, arg.recursive)}
    /\ phase' = "masked"
    /\ UNCHANGED <<sp_usb, settings, out, calls, batch, pad, fmt_in, fmt_out,
                   arg, filter, steps>>

NextMask == MaskSerialCall

SpecMask == InitMask /\ [][NextMask]_vars

(***************************************************************************)
(* SpecSort: sort_devices and sort_devices_ref applied to a vector of      *)
(* devices.  The devices of a vector differ by name, and some share their  *)
(* number or their branch position.                                        *)
(***************************************************************************)
MaxSortLen == 3     \* devices of a vector that is sorted

SortDevice(k, number, port) ==
    USBDevice(number, <<LowerLetters[k]>>, <<port>>, None, None, None, None)

SortInputs ==
    UNION {{[k \in 1..n |-> SortDevice(k, numbers[k], ports[k])] :
                numbers \in [1..n -> 1..3], ports \in [1..n -> 1..2]} :
           n \in 0..MaxSortLen}

InitSort ==
    /\ sp_usb = EmptyTree
    /\ settings = PrintSettings(FALSE, FALSE, FALSE, 0, "NoGroup", "NoSort", FALSE, FALSE)
    /\ out = <<>>
    /\ calls = <<>>
    /\ phase = "sort_ready"
    /\ batch = NoBatch
    /\ pad = EmptyPad
    /\ fmt_in = NoFmt
    /\ fmt_out = NoFmtOut
    /\ arg \in [fn : {"sort_devices", "sort_devices_ref"},
                sort : {"BranchPosition", "DeviceNumber", "NoSort"},
                devices : SortInputs]
    /\ ret = None
    /\ filter = None
    /\ steps = <<>>

\* sort.sort_devices(&d)
SortDevicesCall ==
    /\ phase = "sort_ready"
    /\ arg.fn = "sort_devices"
    /\ ret' = Some([sorted |-> SortDevices(arg.sort, arg.devices),
                    d |-> AfterSortDevices(arg.sort, arg.devices)])
    /\ phase' = "sorted"
    /\ UNCHANGED <<sp_usb, settings, out, calls, batch, pad, fmt_in, fmt_out,
                   arg, filter, steps>>

\* sort.sort_devices_ref(&d)
SortDevicesRefCall ==
    /\ phase = "sort_ready"
    /\ arg.fn = "sort_devices_ref"
    /\ ret' = Some([sorted |-> SortDevicesRef(arg.sort, arg.devices),
                    d |-> AfterSortDevices(arg.sort, arg.devices)])
    /\ phase' = "sorted"
    /\ UNCHANGED <<sp_usb, settings, out, calls, batch, pad, fmt_in, fmt_out,
                   arg, filter, steps>>

NextSort == SortDevicesCall \/ SortDevicesRefCall

SpecSort == InitSort /\ [][NextSort]_vars

(***************************************************************************)
(* prepare.  The passes it delegates are those of system_profiler:         *)
(* SPUSBDataType::flatten, USBFilter::retain_buses, USBBus::has_devices,   *)
(* USBBus::has_empty_hubs and USBBus::get_bus_number.                      *)
(***************************************************************************)
MaxPrepBuses == 2    \* buses of a tree handed to prepare

ClassHub == <<"H", "u", "b">>
IsHub(d) == d.class = Some(ClassHub)

\* USBDevice::flatten: the device and its descendants in one list, parents
\* first, no device keeping children.
RECURSIVE FlattenOwned(_)
FlattenOwned(ds) ==
    Concat([k \in 1..Len(ds) |->
        <<[ds[k] EXCEPT !.devices = None]>>
        \o (IF IsSome(ds[k].devices) THEN FlattenOwned(Unwrap(ds[k].devices)) ELSE <<>>)])

\* SPUSBDataType::flatten: every bus keeps its devices as one flat list.
Flatten(sp) ==
    [buses |-> [k \in DOMAIN sp.buses |->
        [sp.buses[k] EXCEPT !.devices =
            IF IsSome(sp.buses[k].devices)
            THEN Some(FlattenOwned(Unwrap(sp.buses[k].devices)))
            ELSE None]]]

\* USBFilter::is_match, for a filter on the name.
IsMatch(f, d) == IsSome(f.name) => d.name = Unwrap(f.name)

\* USBFilter::retain_devices: a device stays if it matches or if a device
\* below it stays.
RECURSIVE RetainDevices(_, _)
RetainDevices(f, ds) ==
    IF ds = <<>> THEN <<>>
    ELSE LET d == Head(ds)
             below == IF IsSome(d.devices)
                      THEN Some(RetainDevices(f, Unwrap(d.devices)))
                      ELSE None
             stays == IsMatch(f, d) \/ (IsSome(below) /\ Unwrap(below) /= <<>>)
         IN (IF stays THEN <<[d EXCEPT !.devices = below]>> ELSE <<>>)
            \o RetainDevices(f, Tail(ds))

\* USBFilter::retain_buses: the filter applied to the devices of every bus.
RetainBuses(f, buses) ==
    [k \in DOMAIN buses |->
        [buses[k] EXCEPT !.devices =
            IF IsSome(buses[k].devices)
            THEN Some(RetainDevices(f, Unwrap(buses[k].devices)))
            ELSE None]]

\* USBBus::has_devices
HasDevices(bus) == IsSome(bus.devices) /\ Unwrap(bus.devices) /= <<>>

\* USBBus::has_empty_hubs: the bus has devices and all are hubs without devices.
HasEmptyHubs(bus) ==
    /\ HasDevices(bus)
    /\ \A k \in DOMAIN Unwrap(bus.devices) :
          LET d == Unwrap(bus.devices)[k]
          IN IsHub(d) /\ ~(IsSome(d.devices) /\ Unwrap(d.devices) /= <<>>)
NoEmptyHubs(bus) == ~HasEmptyHubs(bus)

\* prepare flattening also in tree mode.
ShouldFlatten_AlsoInTree(f, s) == IsSome(f) \/ s.group_devices = "Bus" \/ s.json

\* prepare: the condition of sp_usb.flatten().
ShouldFlatten(f, s) == ~s.tree /\ (IsSome(f) \/ s.group_devices = "Bus" \/ s.json)

\* The hiding pass keeping every bus.
HideBuses_KeepAll(f, buses) == buses

\* prepare: the body of `if settings.hide_buses`.
HideBuses(f, buses) ==
    LET kept == SelectSeq(buses, HasDevices)
    IN IF IsSome(f) /\ Unwrap(f).exclude_empty_hub
       THEN SelectSeq(kept, NoEmptyHubs)
       ELSE kept

\* sp_usb.buses.sort_by_key(|d| d.get_bus_number()), a stable sort.
RECURSIVE InsertBus(_, _)
InsertBus(b, sorted) ==
    IF sorted = <<>> THEN <<b>>
    ELSE IF Head(sorted).usb_bus_number <= b.usb_bus_number
         THEN <<Head(sorted)>> \o InsertBus(b, Tail(sorted))
         ELSE <<b>> \o sorted
RECURSIVE SortBuses(_, _)
SortBuses(buses, acc) ==
    IF buses = <<>> THEN acc ELSE SortBuses(Tail(buses), InsertBus(Head(buses), acc))

\* prepare: the masking loop over the buses; every outcome of the draws.
RECURSIVE MaskBuses(_, _)
MaskBuses(buses, hide) ==
    IF buses = <<>> THEN {<<>>}
    ELSE {<<[Head(buses) EXCEPT !.devices = ds]>> \o rest :
            ds \in (IF IsSome(Head(buses).devices)
                    THEN {Some(q) : q \in MaskEach(Unwrap(Head(buses).devices), hide)}
                    ELSE {None}),
            rest \in MaskBuses(Tail(buses), hide)}

\* The tree after the last pass run so far.
TreeAfter(sp, passes) == IF passes = <<>> THEN sp ELSE passes[Len(passes)].sp

Pass(name, buses) == [pass |-> name, sp |-> [buses |-> buses]]

\* prepare up to the masking: the passes run, in order, each with the tree
\* it left.
PreparePasses(sp, f, s) ==
    LET p1 == IF ShouldFlatten(f, s) THEN <<Pass("flatten", Flatten(sp).buses)>> ELSE <<>>
        p2 == p1 \o (IF IsSome(f)
                     THEN <<Pass("filter", RetainBuses(Unwrap(f), TreeAfter(sp, p1).buses))>>
                     ELSE <<>>)
        p3 == p2 \o (IF s.hide_buses
                     THEN <<Pass("hide", HideBuses(f, TreeAfter(sp, p2).buses))>>
                     ELSE <<>>)
        p4 == p3 \o (IF s.sort_buses
                     THEN <<Pass("sort", SortBuses(TreeAfter(sp, p3).buses, <<>>))>>
                     ELSE <<>>)
    IN p4

\* prepare: every sequence of passes it can run, the masking included.
Prepare(sp, f, s) ==
    LET passes == PreparePasses(sp, f, s)
    IN IF IsSome(s.mask_serials)
       THEN {passes \o <<Pass("mask", m)>> :
                m \in MaskBuses(TreeAfter(sp, passes).buses, Unwrap(s.mask_serials))}
       ELSE {passes}

(***************************************************************************)
(* SpecPrepare: prepare applied to a tree, a filter and settings.          *)
(***************************************************************************)
PrepDevice(name, serial, hub, devices) ==
    [USBDevice(1, name, <<1>>, None, None, None, devices)
        EXCEPT !.serial_num = serial,
               !.class = IF hub THEN Some(ClassHub) ELSE None]

\* The buses of the trees: without a device list, with an empty one, with a
\* device the filters match, with one they do not, with a hub over both,
\* with a hub over a device they do not match, with an empty hub.
PrepBusDevices ==
    {None,
     Some(<<>>),
     Some(<<PrepDevice(Txt1, Some(SerialText(2)), FALSE, None)>>),
     Some(<<PrepDevice(Txt2, None, FALSE, None)>>),
     Some(<<PrepDevice(Txt3, None, TRUE,
              Some(<<PrepDevice(Txt1, Some(SerialText(1)), FALSE, None),
                     PrepDevice(Txt5, None, TRUE,
                        Some(<<PrepDevice(Txt2, None, FALSE, None)>>))>>))>>),
     Some(<<PrepDevice(Txt3, None, TRUE,
              Some(<<PrepDevice(Txt2, None, FALSE, None)>>))>>),
     Some(<<PrepDevice(Txt3, None, TRUE, Some(<<>>))>>)}

\* Bus k of n has number n - k + 1: the stored order is not the sorted one.
PrepTrees ==
    UNION {{[buses |-> [k \in 1..n |-> USBBus(n - k + 1, Txt1, Txt1, ds[k])]] :
                ds \in [1..n -> PrepBusDevices]} :
           n \in 1..MaxPrepBuses}

PrepFilters ==
    {None} \cup {Some([name |-> Some(Txt1), exclude_empty_hub |-> x]) : x \in BOOLEAN}

PrepSettings ==
    {[PrintSettings(tr, FALSE, FALSE, 0, gr, "NoSort", FALSE, FALSE)
        EXCEPT !.json = js, !.hide_buses = hb, !.sort_buses = sm[1],
               !.mask_serials = sm[2]] :
        tr \in BOOLEAN, gr \in {"NoGroup", "Bus"}, js \in BOOLEAN, hb \in BOOLEAN,
        sm \in {<<FALSE, None>>, <<TRUE, None>>, <<FALSE, Some("Hide")>>,
                <<TRUE, Some("Scramble")>>}}

InitPrepare ==
    /\ sp_usb \in PrepTrees
    /\ settings \in PrepSettings
    /\ out = <<>>
    /\ calls = <<>>
    /\ phase = "prepare_ready"
    /\ batch = NoBatch
    /\ pad = EmptyPad
    /\ fmt_in = NoFmt
    /\ fmt_out = NoFmtOut
    /\ arg = [fn |-> "prepare", sp_usb |-> sp_usb]
    /\ ret = None
    /\ filter \in PrepFilters
    /\ steps = <<>>

\* prepare(&mut sp_usb, filter, &settings)
PrepareCall ==
    /\ phase = "prepare_ready"
    /\ steps' \in Prepare(sp_usb, filter, settings)
    /\ sp_usb' = TreeAfter(sp_usb, steps')
    /\ phase' = "prepared"
    /\ UNCHANGED <<settings, out, calls, batch, pad, fmt_in, fmt_out, arg, ret, filter>>

NextPrepare == PrepareCall

SpecPrepare == InitPrepare /\ [][NextPrepare]_vars

(***************************************************************************)
(* SpecConfig: Config::from_file applied to a file.  A file is missing,    *)
(* or holds bytes that are not UTF-8, or holds a text: one that is not     *)
(* JSON, or a JSON object, a function from its keys to values.  A value    *)
(* is a record of its JSON type and its content.                           *)
(***************************************************************************)
\* The fields of Config under rename_all = "kebab-case": those with
\* #[serde(default)], the Option fields, and the others.
DefaultedFields == {"icons", "colours"}

BlockFields ==
    {"blocks", "bus-blocks", "config-blocks", "interface-blocks", "endpoint-blocks"}

OptionFields == BlockFields \cup {"mask-serials"}

RequiredFields ==
    {"lsusb", "tree", "verbose", "more", "hide-buses", "hide-hubs", "decimal",
     "no-padding", "ascii", "headings", "force-libusb"}

ConfigFields == DefaultedFields \cup OptionFields \cup RequiredFields

\* The enum a field's strings name.
VariantsOf(field) ==
    CASE field = "blocks" -> DeviceBlocks
      [] field = "bus-blocks" -> BusBlocks
      [] field = "config-blocks" -> ConfigurationBlocks
      [] field = "interface-blocks" -> InterfaceBlocks
      [] field = "endpoint-blocks" -> EndpointBlocks
      [] field = "mask-serials" -> {"Hide", "Scramble", "Replace"}

\* rename_all = "kebab-case" on the enums: the name in a document, the variant.
KebabCase ==
    {<<"bus-number", "BusNumber">>, <<"device-number", "DeviceNumber">>,
     <<"branch-position", "BranchPosition">>, <<"port-path", "PortPath">>,
     <<"sys-path", "SysPath">>, <<"driver", "Driver">>, <<"icon", "Icon">>,
     <<"vendor-id", "VendorId">>, <<"product-id", "ProductId">>, <<"name", "Name">>,
     <<"manufacturer", "Manufacturer">>, <<"product-name", "ProductName">>,
     <<"vendor-name", "VendorName">>, <<"serial", "Serial">>, <<"speed", "Speed">>,
     <<"tree-positions", "TreePositions">>, <<"bus-power", "BusPower">>,
     <<"bus-power-used", "BusPowerUsed">>,
     <<"extra-current-used", "ExtraCurrentUsed">>, <<"bcd-device", "BcdDevice">>,
     <<"bcd-usb", "BcdUsb">>, <<"class-code", "ClassCode">>,
     <<"sub-class", "SubClass">>, <<"protocol", "Protocol">>,
     <<"host-controller", "HostController">>, <<"pci-vendor", "PciVendor">>,
     <<"pci-device", "PciDevice">>, <<"pci-revision", "PciRevision">>,
     <<"number", "Number">>, <<"num-interfaces", "NumInterfaces">>,
     <<"attributes", "Attributes">>, <<"icon-attributes", "IconAttributes">>,
     <<"max-power", "MaxPower">>, <<"alt-setting", "AltSetting">>,
     <<"num-endpoints", "NumEndpoints">>, <<"direction", "Direction">>,
     <<"transfer-type", "TransferType">>, <<"sync-type", "SyncType">>,
     <<"usage-type", "UsageType">>, <<"max-packet-size", "MaxPacketSize">>,
     <<"interval", "Interval">>, <<"hide", "Hide">>, <<"scramble", "Scramble">>,
     <<"replace", "Replace">>}

\* The variant of the field's enum that the string names, if any.
ParseVariant(field, str) ==
    LET hits == {q \in KebabCase : q[1] = str /\ q[2] \in VariantsOf(field)}
    IN IF hits = {} THEN None ELSE Some((CHOOSE q \in hits : TRUE)[2])

\* JSON values.  v is the text of a bool, the digits of a number, the one
\* string of a string, the strings of an array; fields are the members of an
\* object.  The content of a theme object is its name in v.
NoFields == [k \in {} |-> <<>>]
JNull == [type |-> "null", v |-> <<>>, fields |-> NoFields]
JBool(b) == [type |-> "bool", v |-> <<IF b THEN "true" ELSE "false">>, fields |-> NoFields]
JNumber(n) == [type |-> "number", v |-> DecStr(n), fields |-> NoFields]
JString(str) == [type |-> "string", v |-> <<str>>, fields |-> NoFields]
JArray(a) == [type |-> "array", v |-> a, fields |-> NoFields]
JTheme(name) == [type |-> "object", v |-> <<name>>, fields |-> NoFields]
JObject(o) == [type |-> "object", v |-> <<>>, fields |-> o]

\* The number written with the digits q.
RECURSIVE JNumberValue(_)
JNumberValue(q) ==
    IF q = <<>> THEN 0
    ELSE 10 * JNumberValue(SubSeq(q, 1, Len(q) - 1))
         + (CHOOSE d \in 0..9 : DecDigit(d) = q[Len(q)])

\* IconTheme::default() and ColourTheme::default()
DefaultTheme == <<"default_theme">>

\* The value of Config's field k read from the JSON value val: Some of it, or
\* None for a value the field's type does not accept.
ParseField(k, val) ==
    CASE k \in DefaultedFields ->
            IF val.type = "object" THEN Some(val.v) ELSE None
      [] k \in BlockFields ->
            IF val.type = "null" THEN Some(None)
            ELSE IF val.type = "array"
                    /\ \A j \in DOMAIN val.v : IsSome(ParseVariant(k, val.v[j]))
            THEN Some(Some([j \in DOMAIN val.v |-> Unwrap(ParseVariant(k, val.v[j]))]))
            ELSE None
      [] k = "mask-serials" ->
            IF val.type = "null" THEN Some(None)
            ELSE IF val.type = "string" /\ IsSome(ParseVariant(k, val.v[1]))
            THEN Some(ParseVariant(k, val.v[1]))
            ELSE None
      [] k = "verbose" ->
            IF val.type = "number" /\ JNumberValue(val.v) \in 0..U8Max
            THEN Some(JNumberValue(val.v))
            ELSE None
      [] OTHER ->
            IF val.type = "bool" THEN Some(val.v = <<"true">>) ELSE None

ConfigOk(c) == [ok |-> TRUE, value |-> c, panicked |-> FALSE]
ConfigErr(kind) == [ok |-> FALSE, value |-> kind, panicked |-> FALSE]
ConfigPanic == [ok |-> FALSE, value |-> "panic", panicked |-> TRUE]

\* The derived Deserialize of Config with the themes required like any
\* other field.
Deserialize_ThemesRequired(obj) ==
    IF \E k \in DOMAIN obj : k \notin ConfigFields THEN ConfigErr("unknown field")
    ELSE IF \E k \in DOMAIN obj : ~IsSome(ParseField(k, obj[k]))
    THEN ConfigErr("invalid type")
    ELSE IF \E k \in RequiredFields \cup DefaultedFields : k \notin DOMAIN obj
    THEN ConfigErr("missing field")
    ELSE ConfigOk([k \in ConfigFields |->
            IF k \in DOMAIN obj THEN Unwrap(ParseField(k, obj[k])) ELSE None])

\* The derived Deserialize of Config: deny_unknown_fields, default for the
\* themes, None for an Option field that is missing.
Deserialize(obj) ==
    IF \E k \in DOMAIN obj : k \notin ConfigFields THEN ConfigErr("unknown field")
    ELSE IF \E k \in DOMAIN obj : ~IsSome(ParseField(k, obj[k]))
    THEN ConfigErr("invalid type")
    ELSE IF \E k \in RequiredFields : k \notin DOMAIN obj
    THEN ConfigErr("missing field")
    ELSE ConfigOk([k \in ConfigFields |->
            IF k \in DOMAIN obj THEN Unwrap(ParseField(k, obj[k]))
            ELSE IF k \in DefaultedFields THEN DefaultTheme
            ELSE None])

\* serde_json::from_str::<Config>(&data)
FromStr(data) ==
    IF data.type /= "object" THEN ConfigErr("syntax") ELSE Deserialize(data.fields)

\* from_file with unwrap() in place of `?` and map_err.
FromFile_Unwrap(file) ==
    IF ~file.exists \/ ~file.utf8 THEN ConfigPanic
    ELSE IF FromStr(file.data).ok THEN FromStr(file.data)
    ELSE ConfigPanic

\* Config::from_file: File::open(..)?, read_to_string(..)?, then from_str
\* with its error mapped to io::ErrorKind::Other.
FromFile(file) ==
    IF ~file.exists THEN ConfigErr("NotFound")
    ELSE IF ~file.utf8 THEN ConfigErr("InvalidData")
    ELSE IF FromStr(file.data).ok THEN FromStr(file.data)
    ELSE ConfigErr("Other")

\* A complete document.
FullDocument(tr, vb) ==
    [k \in ConfigFields |->
        CASE k \in DefaultedFields -> JTheme("user_theme")
          [] k = "blocks" -> JArray(<<"name", "vendor-id", "serial">>)
          [] k = "bus-blocks" -> JArray(<<"host-controller">>)
          [] k \in BlockFields -> JArray(<<"number">>)
          [] k = "mask-serials" -> JString("scramble")
          [] k = "verbose" -> JNumber(vb)
          [] k = "tree" -> JBool(tr)
          [] OTHER -> JBool(FALSE)]

Without(obj, keys) == [k \in DOMAIN obj \ keys |-> obj[k]]

With(obj, key, val) == [k \in DOMAIN obj \cup {key} |-> IF k = key THEN val ELSE obj[k]]

\* Values a field does not accept, and null, which an Option field accepts.
OddValues ==
    {JNull, JString("yes"), JNumber(U8Max + 1), JArray(<<"host-controller">>),
     JArray(<<>>)}

\* Complete documents with and without the themes, and each of them with one
\* field left out, one field given another value, or one field added.
Documents ==
    LET bases == {Without(FullDocument(tr, vb), th) :
                    tr \in BOOLEAN, vb \in {0, MAX_VERBOSITY},
                    th \in SUBSET DefaultedFields}
        small == {Without(FullDocument(TRUE, 1), th) : th \in SUBSET DefaultedFields}
    IN bases
       \cup {Without(d, {k}) : d \in small, k \in OptionFields \cup RequiredFields}
       \cup {With(d, k, val) : d \in small, k \in ConfigFields \cup {"colors"},
                               val \in OddValues}

ConfigFiles ==
    {[exists |-> FALSE, utf8 |-> FALSE, data |-> JNull],
     [exists |-> TRUE, utf8 |-> FALSE, data |-> JNull],
     [exists |-> TRUE, utf8 |-> TRUE, data |-> JString("not json")],
     [exists |-> TRUE, utf8 |-> TRUE, data |-> JArray(<<>>)]}
    \cup {[exists |-> TRUE, utf8 |-> TRUE, data |-> JObject(d)] : d \in Documents}

InitConfig ==
    /\ sp_usb = EmptyTree
    /\ settings = PrintSettings(FALSE, FALSE, FALSE, 0, "NoGroup", "NoSort", FALSE, FALSE)
    /\ out = <<>>
    /\ calls = <<>>
    /\ phase = "config_ready"
    /\ batch = NoBatch
    /\ pad = EmptyPad
    /\ fmt_in = NoFmt
    /\ fmt_out = NoFmtOut
    /\ arg \in {[fn |-> "from_file", file |-> f] : f \in ConfigFiles}
    /\ ret = None
    /\ filter = None
    /\ steps = <<>>

\* Config::from_file(file_path)
FromFileCall ==
    /\ phase = "config_ready"
    /\ ret' = Some(FromFile(arg.file))
    /\ phase' = IF FromFile(arg.file).panicked THEN "panicked" ELSE "loaded"
    /\ UNCHANGED <<sp_usb, settings, out, calls, batch, pad, fmt_in, fmt_out,
                   arg, filter, steps>>

NextConfig == FromFileCall

SpecConfig == InitConfig /\ [][NextConfig]_vars

(***************************************************************************)
(* Reading the output.                                                     *)
(***************************************************************************)
Last(q) == q[Len(q)]
ParentPath(l) == SubSeq(l.path, 1, Len(l.path) - 1)
IsPrefixOf(a, b) == Len(a) <= Len(b) /\ SubSeq(b, 1, Len(a)) = a

ValueLines(level) ==
    {k \in DOMAIN out : out[k].kind = "value" /\ out[k].level = level}

\* The value rows of l's sibling batch: same level, same parent.
Siblings(l) ==
    {k \in ValueLines(l.level) :
        Len(out[k].path) = Len(l.path) /\ ParentPath(out[k]) = ParentPath(l)}

\* The child-device rows printed below the device at path.
ChildDeviceRows(path) ==
    {k \in ValueLines("device") :
        Len(out[k].path) = Len(path) + 1 /\ ParentPath(out[k]) = path}

\* The glyph drawn last in front of a row's terminator.
Connector(l) == Last(l.lead)[2]

Printed == phase = "printed"

(***************************************************************************)
(* C1.  In tree mode, in every batch of devices, interfaces or endpoints   *)
(* printed with a draw state of depth > 0, the row at display index i has  *)
(* the corner connector if and only if i + 1 is the number of siblings of  *)
(* the batch, and the edge connector otherwise.                            *)
(***************************************************************************)
C1_CornerIffLastSibling ==
    (Printed /\ settings.tree) =>
        \A k \in ValueLines("device") \cup ValueLines("interface")
                 \cup ValueLines("endpoint") :
            out[k].tree.depth > 0 =>
                /\ Len(out[k].lead) = Len(out[k].tree.prefix) + 1
                /\ Connector(out[k]) =
                     IF out[k].i + 1 = Cardinality(Siblings(out[k]))
                     THEN "TreeCorner" ELSE "TreeEdge"

C1_Witness ==
    /\ Printed /\ settings.tree
    /\ \E k \in ValueLines("device") :
          /\ Cardinality(Siblings(out[k])) >= 2
          /\ out[k].i = 0 /\ Connector(out[k]) = "TreeEdge"
    /\ \E k \in ValueLines("device") :
          /\ Cardinality(Siblings(out[k])) >= 2
          /\ out[k].i = 1 /\ Connector(out[k]) = "TreeCorner"
    /\ \E k \in ValueLines("endpoint") : Connector(out[k]) = "TreeCorner"
    /\ \E k \in ValueLines("interface") : Connector(out[k]) = "TreeEdge"

(***************************************************************************)
(* C2.  In tree mode the draw state a device passes to its configurations  *)
(* has branch_length = number of configurations + number of the device's   *)
(* child devices, so a configuration row has the corner connector if and   *)
(* only if it is the last configuration and the device has no child        *)
(* devices, and the edge connector otherwise.                              *)
(***************************************************************************)
C2_ConfigurationBranchLength ==
    (Printed /\ settings.tree) =>
        \A k \in ValueLines("config") :
            LET l == out[k]
                nconfigs == Cardinality(Siblings(l))
                nchildren == Cardinality(ChildDeviceRows(ParentPath(l)))
            IN /\ l.tree.branch_length = nconfigs + nchildren
               /\ Connector(l) =
                    IF l.i + 1 = nconfigs /\ nchildren = 0
                    THEN "TreeCorner" ELSE "TreeEdge"

C2_Witness ==
    /\ Printed /\ settings.tree
    /\ \E k \in ValueLines("config") :
          /\ out[k].i + 1 = Cardinality(Siblings(out[k]))
          /\ ChildDeviceRows(ParentPath(out[k])) = {}
          /\ Connector(out[k]) = "TreeCorner"
    /\ \E k \in ValueLines("config") :
          /\ out[k].i + 1 = Cardinality(Siblings(out[k]))
          /\ ChildDeviceRows(ParentPath(out[k])) /= {}
          /\ Connector(out[k]) = "TreeEdge"

(***************************************************************************)
(* C3.  In tree mode every call of generate_tree_data returns the parent's *)
(* prefix followed by nothing when the parent's depth is 0, and otherwise  *)
(* by the vertical-continuation glyph when index + 1 is not the parent's   *)
(* branch_length and by the blank glyph when it is.                        *)
(***************************************************************************)
C3_PassedPrefix ==
    (Printed /\ settings.tree) =>
        \A k \in DOMAIN calls :
            LET c == calls[k] IN
            c.result.prefix =
                c.parent.prefix \o
                (IF c.parent.depth = 0 THEN <<>>
                 ELSE IF c.index + 1 /= c.parent.branch_length
                      THEN <<TreeIcon("TreeLine", settings)>>
                      ELSE <<TreeIcon("TreeBlank", settings)>>)

C3_Witness ==
    /\ Printed /\ settings.tree
    /\ \E k \in DOMAIN calls :
          /\ calls[k].parent.depth > 0
          /\ calls[k].index + 1 = calls[k].parent.branch_length
          /\ Last(calls[k].result.prefix)[2] = "TreeBlank"
    /\ \E k \in DOMAIN calls :
          /\ calls[k].parent.depth > 0
          /\ calls[k].index + 1 /= calls[k].parent.branch_length
          /\ Last(calls[k].result.prefix)[2] = "TreeLine"
    /\ \E k \in DOMAIN calls :
          calls[k].parent.depth = 0 /\ calls[k].result.prefix = <<>>

(***************************************************************************)
(* C4.  A child's draw state has a prefix that begins with its parent's    *)
(* prefix, so the prefix never gets shorter as depth grows; in flat mode   *)
(* the prefix is passed on unchanged.                                      *)
(***************************************************************************)
C4_PrefixExtendsParent ==
    Printed =>
        /\ \A k \in DOMAIN calls :
              /\ IsPrefixOf(calls[k].parent.prefix, calls[k].result.prefix)
              /\ (~settings.tree => calls[k].result.prefix = calls[k].parent.prefix)
        /\ \A j, k \in DOMAIN out :
              (/\ out[j].kind = "value" /\ out[k].kind = "value"
               /\ IsPrefixOf(out[j].path, out[k].path)
               /\ out[j].tree.depth <= out[k].tree.depth)
              => Len(out[j].tree.prefix) <= Len(out[k].tree.prefix)

C4_Witness ==
    /\ Printed /\ settings.tree
    /\ \E k \in DOMAIN calls :
          /\ Len(calls[k].parent.prefix) >= 2
          /\ Len(calls[k].result.prefix) = Len(calls[k].parent.prefix) + 1
          /\ IsPrefixOf(calls[k].parent.prefix, calls[k].result.prefix)

(***************************************************************************)
(* C5.  Every descent (bus to devices, device to configurations, device to *)
(* child devices, configuration to interfaces, interface to endpoints)     *)
(* passes a draw state whose depth is the parent's depth + 1 and whose     *)
(* branch_length is the value supplied for the child level.                *)
(***************************************************************************)
ParentLevel(l) ==
    CASE l.level = "endpoint" -> "interface"
      [] l.level = "interface" -> "config"
      [] l.level = "config" -> "device"
      [] l.level = "device" -> IF Len(l.path) = 2 THEN "bus" ELSE "device"

\* The rows of the entity that l's batch hangs below.
ParentRows(l) ==
    {k \in ValueLines(ParentLevel(l)) : out[k].path = ParentPath(l)}

C5_DepthPlusOne ==
    (Printed /\ (settings.tree \/ settings.group_devices = "Bus")) =>
        /\ \A k \in DOMAIN calls :
              /\ calls[k].result.depth = calls[k].parent.depth + 1
              /\ calls[k].result.branch_length = calls[k].branch_length
        /\ \A k \in DOMAIN out :
              (out[k].kind = "value" /\ out[k].level /= "bus") =>
                  /\ ParentRows(out[k]) /= {}
                  /\ \A m \in ParentRows(out[k]) :
                        out[k].tree.depth = out[m].tree.depth + 1

C5_Witness ==
    /\ Printed /\ settings.tree
    /\ \E k \in ValueLines("endpoint") : out[k].tree.depth = 5
    /\ \E k \in ValueLines("device") : out[k].tree.depth = 3
    /\ \E k \in DOMAIN calls :
          /\ calls[k].parent.depth = 4 /\ calls[k].result.depth = 5
          /\ calls[k].branch_length >= 1
          /\ calls[k].result.branch_length = calls[k].branch_length

(***************************************************************************)
(* C8.  The padding table a batch is printed with is computed from the     *)
(* entities of that batch alone: the width of its Name column is the       *)
(* heading's length or the longest name among the batch's own rows, never  *)
(* widened by a name in the parent's batch or in any other batch.          *)
(***************************************************************************)
LongestSiblingName(l) ==
    LET lens == {ByteLen(out[k].name) : k \in Siblings(l)}
    IN CHOOSE m \in lens : \A x \in lens : x <= m

C8_PaddingPerBatch ==
    (Printed /\ ~settings.no_padding) =>
        \A k \in DOMAIN out :
            (out[k].kind = "value" /\ out[k].level /= "endpoint") =>
                LET l == out[k]
                    w == Max(4, LongestSiblingName(l))
                IN /\ l.pad["Name"] = w
                   /\ \E c \in DOMAIN l.cells : l.cells[c] = PadLeftAlign(l.name, w)

C8_Witness ==
    /\ Printed /\ ~settings.no_padding /\ settings.tree
    /\ \E j, k \in ValueLines("device") :
          /\ IsPrefixOf(out[j].path, out[k].path)
          /\ out[j].pad["Name"] > out[k].pad["Name"]
    /\ \E j, k \in ValueLines("device") :
          /\ Len(out[j].path) = Len(out[k].path)
          /\ out[j].pad["Name"] /= out[k].pad["Name"]

(***************************************************************************)
(* Reading a padding table.                                                *)
(***************************************************************************)
FormatValue(level, b, e, p, s) ==
    CASE level = "device" -> DeviceFormatValue(b, e, p, s)
      [] level = "bus" -> BusFormatValue(b, e, p, s)
      [] level = "config" -> ConfigFormatValue(b, e, p, s)
      [] level = "interface" -> InterfaceFormatValue(b, e, p, s)
      [] level = "endpoint" -> EndpointFormatValue(b, e, p, s)

Heading(level, b, p) ==
    CASE level = "device" -> DeviceHeading(b, p)
      [] level = "bus" -> BusHeading(b, p)
      [] level = "config" -> ConfigHeading(b, p)
      [] level = "interface" -> InterfaceHeading(b, p)
      [] level = "endpoint" -> EndpointHeading(b, p)

\* The cell of column b for the batch's item k: as rendered with the table,
\* and as rendered with no table, which is the value's own text.
PaddedCell(b, k) == FormatValue(batch.level, b, batch.items[k], pad, settings)
BareCell(b, k) == FormatValue(batch.level, b, batch.items[k], EmptyPad, settings)
HeadingLen(b) == CharLen(Heading(batch.level, b, EmptyPad))

\* The longest value of column b in the batch, 0 for no values.
LongestValue(b) ==
    LET lens == {0} \cup {ByteLen(Unwrap(BareCell(b, k))) :
                    k \in {j \in DOMAIN batch.items : IsSome(BareCell(b, j))}}
    IN CHOOSE m \in lens : \A x \in lens : x <= m

Padded == phase = "padded"

(***************************************************************************)
(* C6.  For every batch and every padded column, the padding width is at   *)
(* least the heading's length and at least the length of every rendered    *)
(* value of the column in the batch, so that every cell of the column is   *)
(* rendered at exactly the padding width.                                  *)
(***************************************************************************)
C6_WidthCoversEveryValue ==
    Padded =>
        \A b \in DOMAIN pad :
            /\ pad[b] >= HeadingLen(b)
            /\ CharLen(Heading(batch.level, b, pad)) = pad[b]
            /\ \A k \in DOMAIN batch.items :
                  IsSome(PaddedCell(b, k)) =>
                      /\ pad[b] >= CharLen(Unwrap(BareCell(b, k)))
                      /\ CharLen(Unwrap(PaddedCell(b, k))) = pad[b]

(***************************************************************************)
(* C7.  The width of a padded column is exactly the larger of the          *)
(* heading's length and the longest rendered value of the batch, and no    *)
(* larger; the device tree-positions column, rendered as the positions     *)
(* joined by "-", is one of these columns.                                 *)
(***************************************************************************)
C7_WidthIsTight ==
    Padded =>
        \A b \in DOMAIN pad : pad[b] = Max(HeadingLen(b), LongestValue(b))

(***************************************************************************)
(* Reading a formatted number.                                             *)
(***************************************************************************)
LowerHexChars == {HexDigit(d) : d \in 0..15}
DecChars == {DecDigit(d) : d \in 0..9}
HexVal(c) == CHOOSE d \in 0..15 : HexDigit(d) = c
DecVal(c) == CHOOSE d \in 0..9 : DecDigit(d) = c

RECURSIVE ParseHex(_)
ParseHex(q) ==
    IF q = <<>> THEN 0
    ELSE 16 * ParseHex(SubSeq(q, 1, Len(q) - 1)) + HexVal(q[Len(q)])

RECURSIVE ParseDec(_)
ParseDec(q) ==
    IF q = <<>> THEN 0
    ELSE 10 * ParseDec(SubSeq(q, 1, Len(q) - 1)) + DecVal(q[Len(q)])

(***************************************************************************)
(* C9.  format_base_u16 returns 6 characters in both modes: in hex mode    *)
(* "0x" and the value as 4 lower-case zero-padded hex digits, in decimal   *)
(* mode the value's decimal digits right-aligned in 6 and padded with      *)
(* spaces.                                                                 *)
(***************************************************************************)
C9_U16SixChars ==
    IsSome(fmt_out.u16) =>
        LET r == Unwrap(fmt_out.u16) IN
        /\ Len(r) = 6
        /\ ~fmt_in.decimal =>
              /\ r[1] = "0" /\ r[2] = "x"
              /\ \A k \in 3..6 : r[k] \in LowerHexChars
              /\ ParseHex(SubSeq(r, 3, 6)) = fmt_in.v
        /\ fmt_in.decimal =>
              \E n \in 1..5 :
                  /\ \A k \in 1..(6 - n) : r[k] = " "
                  /\ \A k \in (7 - n)..6 : r[k] \in DecChars
                  /\ (n > 1 => r[7 - n] /= "0")
                  /\ ParseDec(SubSeq(r, 7 - n, 6)) = fmt_in.v

C9_Witness ==
    /\ IsSome(fmt_out.u16)
    /\ \/ /\ ~fmt_in.decimal /\ fmt_in.v = 26
          /\ Unwrap(fmt_out.u16) = <<"0", "x", "0", "0", "1", "a">>
       \/ /\ fmt_in.decimal /\ fmt_in.v = 26
          /\ Unwrap(fmt_out.u16) = <<" ", " ", " ", " ", "2", "6">>

(***************************************************************************)
(* C10.  The cells of an 8-bit code column have one width whether or not   *)
(* decimal mode is on: the code in hex ("0x" and 2 digits), the code in    *)
(* decimal and the "-" placeholder of an absent code take the same number  *)
(* of characters.                                                          *)
(***************************************************************************)
C10_CodeColumnOneWidth ==
    IsSome(fmt_out.code) =>
        LET c == Unwrap(fmt_out.code)
            hex == FormatBaseU8(fmt_in.v, [settings EXCEPT !.decimal = FALSE])
        IN /\ Len(c.present) = Len(c.absent)
           /\ Len(c.interface) = Len(c.absent)
           /\ Len(c.present) = Len(hex)

(***************************************************************************)
(* Reading a masked device.                                                *)
(***************************************************************************)
Masked == phase = "masked"

\* The devices mask_serial was to mask, each with what it became.
RECURSIVE MaskedPairs(_, _, _)
MaskedPairs(before, after, recursive) ==
    {<<before, after>>}
    \cup (IF recursive /\ IsSome(before.devices) /\ IsSome(after.devices)
             /\ Len(Unwrap(before.devices)) = Len(Unwrap(after.devices))
          THEN UNION {MaskedPairs(Unwrap(before.devices)[k], Unwrap(after.devices)[k],
                                  TRUE) : k \in DOMAIN Unwrap(before.devices)}
          ELSE {})

\* A device with every serial of its subtree taken out.
RECURSIVE StripSerials(_)
StripSerials(d) ==
    [d EXCEPT !.serial_num = None,
              !.devices = IF IsSome(d.devices)
                          THEN Some([k \in DOMAIN Unwrap(d.devices) |->
                                        StripSerials(Unwrap(d.devices)[k])])
                          ELSE None]

\* mask_serial touches serials only, and only below the device if recursive.
OnlySerialsMasked ==
    /\ StripSerials(Unwrap(ret)) = StripSerials(arg.device)
    /\ ~arg.recursive => Unwrap(ret).devices = arg.device.devices

MaskedSerialPairs ==
    {<<Unwrap(p[1].serial_num), Unwrap(p[2].serial_num)>> :
        p \in {q \in MaskedPairs(arg.device, Unwrap(ret), arg.recursive) :
                  IsSome(q[1].serial_num) /\ IsSome(q[2].serial_num)}}

SerialsStayPresent ==
    \A p \in MaskedPairs(arg.device, Unwrap(ret), arg.recursive) :
        IsSome(p[1].serial_num) <=> IsSome(p[2].serial_num)

(***************************************************************************)
(* C11.  mask_serial with Hide replaces a present serial by a string of    *)
(* the same number of characters, all of them "*": "AB12" becomes "****"   *)
(* and the empty serial stays empty.                                       *)
(***************************************************************************)
C11_HideAllAsterisks ==
    (Masked /\ arg.hide = "Hide") =>
        /\ OnlySerialsMasked /\ SerialsStayPresent
        /\ \A p \in MaskedSerialPairs :
              /\ Len(p[2]) = Len(p[1])
              /\ \A k \in DOMAIN p[2] : p[2][k] = "*"

C11_Witness ==
    /\ Masked /\ arg.hide = "Hide"
    /\ arg.device.serial_num = Some(<<"A", "B", "1", "2">>)
    /\ Unwrap(ret).serial_num = Some(<<"*", "*", "*", "*">>)

(***************************************************************************)
(* C12.  mask_serial with Scramble replaces a present serial by a string   *)
(* of the same number of characters, each of them one of the characters of *)
(* the original serial (drawn with replacement), whatever the random       *)
(* choices.                                                                *)
(***************************************************************************)
C12_ScrambleOwnChars ==
    (Masked /\ arg.hide = "Scramble") =>
        /\ OnlySerialsMasked /\ SerialsStayPresent
        /\ \A p \in MaskedSerialPairs :
              /\ Len(p[2]) = Len(p[1])
              /\ \A k \in DOMAIN p[2] : p[2][k] \in Range(p[1])

C12_Witness ==
    /\ Masked /\ arg.hide = "Scramble"
    /\ arg.device.serial_num = Some(<<"A", "B", "1", "2">>)
    /\ Unwrap(ret).serial_num = Some(<<"2", "2", "A", "B">>)

(***************************************************************************)
(* C13.  mask_serial with Replace replaces a present serial by a string of *)
(* the same number of characters, each an upper-case letter A-Z or a digit *)
(* 0-9 whatever the original characters and the random choices.            *)
(***************************************************************************)
C13_ReplaceUpperAlphanumeric ==
    /\ \A c \in Alphanumeric :
          ToUppercaseChar(c) \in Range(UpperLetters) \cup Range(Digits)
    /\ (Masked /\ arg.hide = "Replace") =>
          /\ OnlySerialsMasked /\ SerialsStayPresent
          /\ \A p \in MaskedSerialPairs :
                /\ Len(p[2]) = Len(p[1])
                /\ \A k \in DOMAIN p[2] :
                      p[2][k] \in Range(UpperLetters) \cup Range(Digits)

C13_Witness ==
    /\ Masked /\ arg.hide = "Replace"
    /\ arg.device.serial_num = Some(<<"x", WideChar>>)
    /\ Unwrap(ret).serial_num = Some(<<"Z", "7">>)

(***************************************************************************)
(* Reading a sorted vector.                                                *)
(***************************************************************************)
Sorted == phase = "sorted"

\* The key of the policy, read from the device.
KeyOf(sort, d) ==
    CASE sort = "DeviceNumber" -> d.location_id.number
      [] sort = "BranchPosition" -> d.branch_position

Permutations(n) == {f \in [1..n -> 1..n] : \A j, k \in 1..n : f[j] = f[k] => j = k}

(***************************************************************************)
(* C14.  Sort::DeviceNumber, and Sort::BranchPosition with its key, return *)
(* a permutation of the input devices in non-decreasing key order, devices *)
(* of equal key in their input order; numbers [3,1,2] give [1,2,3].  This  *)
(* holds for sort_devices and sort_devices_ref, and both leave the input   *)
(* vector as it was.                                                       *)
(***************************************************************************)
C14_StableSortByKey ==
    (Sorted /\ arg.sort \in {"DeviceNumber", "BranchPosition"}) =>
        LET d == arg.devices
            sorted == Unwrap(ret).sorted
            n == Len(d)
        IN /\ Len(sorted) = n
           /\ \E f \in Permutations(n) :
                 /\ \A k \in 1..n : sorted[k] = d[f[k]]
                 /\ \A j, k \in 1..n :
                       (j < k /\ KeyOf(arg.sort, sorted[j]) = KeyOf(arg.sort, sorted[k]))
                       => f[j] < f[k]
           /\ \A k \in 1..(n - 1) :
                 KeyOf(arg.sort, sorted[k]) <= KeyOf(arg.sort, sorted[k + 1])
           /\ Unwrap(ret).d = d

C14_Witness ==
    /\ Sorted /\ arg.sort = "DeviceNumber"
    /\ Len(arg.devices) = 3
    /\ [k \in 1..3 |-> arg.devices[k].location_id.number] = <<3, 1, 2>>
    /\ [k \in 1..3 |-> Unwrap(ret).sorted[k].location_id.number] = <<1, 2, 3>>
    /\ [k \in 1..3 |-> Unwrap(ret).d[k].location_id.number] = <<3, 1, 2>>

(***************************************************************************)
(* C15.  With Sort::NoSort, sort_devices and sort_devices_ref return the   *)
(* devices in exactly the input order, and print_devices and               *)
(* print_flattened_devices write the device rows in exactly the stored     *)
(* order at every level of the tree.                                       *)
(***************************************************************************)
RECURSIVE DeviceAt(_, _)
DeviceAt(ds, path) ==
    IF Len(path) = 1 THEN ds[path[1] + 1]
    ELSE DeviceAt(Unwrap(ds[path[1] + 1].devices), Tail(path))

\* The stored device at the place in the tree where row l was written.
StoredDevice(l) ==
    IF settings.tree \/ settings.group_devices = "Bus"
    THEN DeviceAt(Unwrap(sp_usb.buses[l.path[1] + 1].devices), Tail(l.path))
    ELSE SpFlattenDevices(sp_usb)[l.path[1] + 1]

C15_NoSortKeepsOrder ==
    (Printed /\ settings.sort_devices = "NoSort") =>
        /\ \A k \in ValueLines("device") :
              /\ out[k].name = StoredDevice(out[k]).name
              /\ out[k].number = StoredDevice(out[k]).location_id.number
        /\ Cardinality(ValueLines("device")) = Len(SpFlattenDevices(sp_usb))
        /\ SortDevices("NoSort", SpFlattenDevices(sp_usb)) = SpFlattenDevices(sp_usb)
        /\ SortDevicesRef("NoSort", SpFlattenDevices(sp_usb)) = SpFlattenDevices(sp_usb)

\* Rows below a hub written in stored order where a sort by branch position
\* would have exchanged them.
C15_Witness ==
    /\ Printed /\ settings.sort_devices = "NoSort"
    /\ \E k \in ValueLines("device") :
          /\ Len(out[k].path) >= 3
          /\ out[k].name = StoredDevice(out[k]).name
          /\ \E m \in Siblings(out[k]) :
                m > k /\ StoredDevice(out[m]).branch_position
                            < StoredDevice(out[k]).branch_position

(***************************************************************************)
(* Counting the entities of the tree.                                      *)
(***************************************************************************)
RECURSIVE Sum(_)
Sum(q) == IF q = <<>> THEN 0 ELSE Head(q) + Sum(Tail(q))

\* The configurations of a device: those of its extended-info block.
ConfigurationsOf(d) == IF IsSome(d.extra) THEN Unwrap(d.extra).configurations ELSE <<>>
InterfacesOf(d) ==
    Concat([k \in DOMAIN ConfigurationsOf(d) |-> ConfigurationsOf(d)[k].interfaces])
EndpointsOf(d) == Concat([k \in DOMAIN InterfacesOf(d) |-> InterfacesOf(d)[k].endpoints])

AllDevices == SpFlattenDevices(sp_usb)
AllConfigurations == Sum([k \in DOMAIN AllDevices |-> Len(ConfigurationsOf(AllDevices[k]))])
AllInterfaces == Sum([k \in DOMAIN AllDevices |-> Len(InterfacesOf(AllDevices[k]))])
AllEndpoints == Sum([k \in DOMAIN AllDevices |-> Len(EndpointsOf(AllDevices[k]))])

RowCount(level) == Cardinality(ValueLines(level))

(***************************************************************************)
(* C16.  Rows are written per level according to verbosity: a row for      *)
(* every bus (when buses are printed) and every device at every           *)
(* verbosity; configuration rows only when verbosity >= 1, and then for    *)
(* the devices that have their extended-info block; interface rows only    *)
(* when verbosity >= 2; endpoint rows only when verbosity >= 3.  Below a   *)
(* level's threshold no row of that level or of a deeper level is written. *)
(***************************************************************************)
C16_RowsByVerbosity ==
    Printed =>
        /\ RowCount("device") = Len(AllDevices)
        /\ RowCount("bus") = IF settings.tree \/ settings.group_devices = "Bus"
                         THEN Len(sp_usb.buses) ELSE 0
        /\ RowCount("config") = IF settings.verbosity >= 1 THEN AllConfigurations ELSE 0
        /\ RowCount("interface") = IF settings.verbosity >= 2 THEN AllInterfaces ELSE 0
        /\ RowCount("endpoint") = IF settings.verbosity >= 3 THEN AllEndpoints ELSE 0

\* Verbosity 2 on a tree that has endpoints: configuration and interface
\* rows are written, endpoint rows are not.
C16_Witness ==
    /\ Printed /\ settings.verbosity = 2
    /\ AllEndpoints > 0
    /\ RowCount("config") > 0 /\ RowCount("interface") > 0
    /\ RowCount("endpoint") = 0

(***************************************************************************)
(* Reading a run of prepare.                                               *)
(***************************************************************************)
Prepared == phase = "prepared"

PassesNamed(name) == {k \in DOMAIN steps : steps[k].pass = name}

\* The tree a pass of prepare started from.
TreeBefore(k) == TreeAfter(arg.sp_usb, SubSeq(steps, 1, k - 1))

\* No device of the tree has a device below it.
IsFlat(sp) ==
    \A k \in DOMAIN sp.buses :
        IsSome(sp.buses[k].devices) =>
            \A j \in DOMAIN Unwrap(sp.buses[k].devices) :
                LET d == Unwrap(sp.buses[k].devices)[j]
                IN ~(IsSome(d.devices) /\ Unwrap(d.devices) /= <<>>)

(***************************************************************************)
(* C17.  prepare flattens the tree if and only if tree mode is off and a   *)
(* filter is supplied, or group_devices is Bus, or json output is asked    *)
(* for; when it flattens, it does so before the filter is applied; in tree *)
(* mode it never flattens.                                                 *)
(***************************************************************************)
C17_FlattenIffNotTree ==
    Prepared =>
        /\ (PassesNamed("flatten") /= {}) <=>
              (/\ ~settings.tree
               /\ (IsSome(filter) \/ settings.group_devices = "Bus" \/ settings.json))
        /\ settings.tree => PassesNamed("flatten") = {}
        /\ \A j \in PassesNamed("flatten") :
              /\ j = 1
              /\ steps[j].sp = Flatten(arg.sp_usb)
              /\ IsFlat(sp_usb)
              /\ \A k \in PassesNamed("filter") :
                    /\ j < k
                    /\ steps[k].sp.buses = RetainBuses(Unwrap(filter), Flatten(arg.sp_usb).buses)
        /\ (PassesNamed("flatten") = {} /\ PassesNamed("filter") = {}) =>
              (IsFlat(sp_usb) <=> IsFlat(arg.sp_usb))

\* A nested tree flattened and then filtered, where filtering first would
\* have kept a hub that the filter does not match.
C17_Witness ==
    /\ Prepared
    /\ ~IsFlat(arg.sp_usb)
    /\ Len(steps) >= 2 /\ steps[1].pass = "flatten" /\ steps[2].pass = "filter"
    /\ steps[2].sp /= Flatten([buses |-> RetainBuses(Unwrap(filter), arg.sp_usb.buses)])
    /\ IsFlat(sp_usb)

(***************************************************************************)
(* C18.  After prepare with empty-bus hiding, no bus without devices is    *)
(* left, emptiness being judged after the filter (a bus whose devices were *)
(* all filtered out is dropped); every bus that has a device after the     *)
(* filter stays, unless the filter's exclude-empty-hub rule removes it.    *)
(***************************************************************************)
KeptByHiding(bus) ==
    /\ HasDevices(bus)
    /\ ~(IsSome(filter) /\ Unwrap(filter).exclude_empty_hub /\ HasEmptyHubs(bus))

BusNumbers(sp) == {sp.buses[k].usb_bus_number : k \in DOMAIN sp.buses}

C18_NoEmptyBusLeft ==
    (Prepared /\ settings.hide_buses) =>
        /\ \A k \in DOMAIN sp_usb.buses : HasDevices(sp_usb.buses[k])
        /\ PassesNamed("hide") /= {}
        /\ \A k \in PassesNamed("hide") :
              /\ \A j \in PassesNamed("filter") : j < k
              /\ steps[k].sp.buses = SelectSeq(TreeBefore(k).buses, KeptByHiding)
              /\ BusNumbers(sp_usb) = BusNumbers(steps[k].sp)

\* A bus that had a device, lost it to the filter and is no longer in the
\* tree, next to a bus that kept a device and stays.
C18_Witness ==
    /\ Prepared /\ settings.hide_buses /\ IsSome(filter)
    /\ Len(arg.sp_usb.buses) = 2
    /\ \A k \in DOMAIN arg.sp_usb.buses : HasDevices(arg.sp_usb.buses[k])
    /\ Len(sp_usb.buses) = 1
    /\ HasDevices(sp_usb.buses[1])
    /\ \E k \in PassesNamed("filter") :
          \E j \in DOMAIN steps[k].sp.buses : ~HasDevices(steps[k].sp.buses[j])

(***************************************************************************)
(* C19.  When the JSON serialization fails inside print, the failure       *)
(* reaches the caller as an error value it can handle: no serialization    *)
(* failure aborts the process, in the tree/grouped branch or in the        *)
(* flattened branch.                                                       *)
(***************************************************************************)
C19_SerializationFailureNeverAborts == phase /= "panicked"

(***************************************************************************)
(* C20.  Printing never mutates: for every tree and settings, with a sort  *)
(* policy that shows devices in another order than stored as well, the     *)
(* tree and the settings after print are what they were when it was        *)
(* called.                                                                 *)
(***************************************************************************)
AfterPrint == phase \in {"printed", "printed_json", "panicked"}

C20_PrintingNeverMutates ==
    AfterPrint => (sp_usb = arg.sp_usb /\ settings = arg.settings)

\* The devices of one level and below in the order print_devices shows them.
RECURSIVE ShownDevices(_, _)
ShownDevices(devices, s) ==
    LET d == SortDevices(s.sort_devices, devices)
    IN [k \in DOMAIN d |->
          [d[k] EXCEPT !.devices =
              IF IsSome(@) THEN Some(ShownDevices(Unwrap(@), s)) ELSE @]]

\* Some devices of the tree are shown in another order than they are stored.
ShownOutOfStoredOrder ==
    \E b \in DOMAIN sp_usb.buses :
        /\ IsSome(sp_usb.buses[b].devices)
        /\ ShownDevices(Unwrap(sp_usb.buses[b].devices), settings)
              /= Unwrap(sp_usb.buses[b].devices)

\* A tree printed with devices shown in another order than stored, and the
\* tree what it was.
C20_Witness ==
    /\ Printed /\ settings.tree /\ settings.sort_devices = "BranchPosition"
    /\ Len(out) > 0
    /\ ShownOutOfStoredOrder
    /\ sp_usb = arg.sp_usb /\ settings = arg.settings

(***************************************************************************)
(* Reading a cell of an absent attribute.                                  *)
(***************************************************************************)
BlocksOf(level) ==
    CASE level = "device" -> DeviceBlocks
      [] level = "bus" -> BusBlocks
      [] level = "config" -> ConfigurationBlocks
      [] level = "interface" -> InterfaceBlocks
      [] level = "endpoint" -> EndpointBlocks

\* The optional attribute that column b shows is absent from entity e.
AbsentAttribute(level, b, e) ==
    CASE level = "device" ->
            (CASE b \in {"SysPath", "Driver", "ProductName", "VendorName"} ->
                    \/ ~IsSome(e.extra)
                    \/ ~IsSome(Unwrap(e.extra)[
                            CASE b = "SysPath" -> "syspath"
                              [] b = "Driver" -> "driver"
                              [] b = "ProductName" -> "product_name"
                              [] b = "VendorName" -> "vendor"])
               [] b = "VendorId" -> ~IsSome(e.vendor_id)
               [] b = "ProductId" -> ~IsSome(e.product_id)
               [] b = "Manufacturer" -> ~IsSome(e.manufacturer)
               [] b = "Serial" -> ~IsSome(e.serial_num)
               [] b = "Speed" -> ~IsSome(e.device_speed)
               [] b = "BusPower" -> ~IsSome(e.bus_power)
               [] b = "BusPowerUsed" -> ~IsSome(e.bus_power_used)
               [] b = "ExtraCurrentUsed" -> ~IsSome(e.extra_current_used)
               [] b = "BcdDevice" -> ~IsSome(e.bcd_device)
               [] b = "BcdUsb" -> ~IsSome(e.bcd_usb)
               [] b = "ClassCode" -> ~IsSome(e.class)
               [] b = "SubClass" -> ~IsSome(e.sub_class)
               [] b = "Protocol" -> ~IsSome(e.protocol)
               [] OTHER -> FALSE)
      [] level = "bus" ->
            (CASE b = "PciVendor" -> ~IsSome(e.pci_vendor)
               [] b = "PciDevice" -> ~IsSome(e.pci_device)
               [] b = "PciRevision" -> ~IsSome(e.pci_revision)
               [] OTHER -> FALSE)
      [] level = "interface" ->
            (CASE b = "SysPath" -> ~IsSome(e.syspath)
               [] b = "Driver" -> ~IsSome(e.driver)
               [] OTHER -> FALSE)
      [] OTHER -> FALSE

\* The width written in the format string of a column that has no entry in
\* the padding table and shows an optional attribute.
FixedWidth(level, b) ==
    CASE b \in {"VendorId", "ProductId", "PciVendor", "PciDevice", "PciRevision",
                "BusPower", "BusPowerUsed", "ExtraCurrentUsed"} -> 6
      [] b = "Speed" -> 10
      [] b \in {"BcdDevice", "BcdUsb"} -> 5
      [] b \in {"SubClass", "Protocol"} -> 4

ColumnWidth(level, b) == IF b \in DOMAIN pad THEN pad[b] ELSE FixedWidth(level, b)

\* One "-" and spaces, w characters in all.
IsPlaceholder(cell, w) ==
    /\ CharLen(cell) = w
    /\ \E k \in DOMAIN cell :
          cell[k] = "-" /\ \A j \in DOMAIN cell \ {k} : cell[j] = " "

(***************************************************************************)
(* C21.  Rendering a cell never fails: for every block of every entity     *)
(* type and every entity, the cell of an absent optional attribute, a      *)
(* device without its extended-info block included, is the placeholder     *)
(* "-" padded to the column's width, the padding table's width for a       *)
(* padded column and the fixed format width for any other, and never a     *)
(* missing cell.                                                           *)
(***************************************************************************)
C21_AbsentIsPlaceholder ==
    Padded =>
        \A b \in BlocksOf(batch.level) : \A k \in DOMAIN batch.items :
            /\ b /= "Icon" => IsSome(PaddedCell(b, k))
            /\ AbsentAttribute(batch.level, b, batch.items[k]) =>
                  /\ IsSome(PaddedCell(b, k))
                  /\ IsPlaceholder(Unwrap(PaddedCell(b, k)),
                                   ColumnWidth(batch.level, b))

\* A device without the extended-info block beside one whose driver is long:
\* its driver cell is "-" at the width of the long one.
C21_Witness ==
    /\ Padded /\ batch.level = "device"
    /\ \E k \in DOMAIN batch.items : \E j \in DOMAIN batch.items :
          /\ ~IsSome(batch.items[k].extra)
          /\ IsSome(batch.items[j].extra)
          /\ pad["Driver"] = 14
          /\ PaddedCell("Driver", k) = Some(<<"-">> \o Spaces(13))
          /\ PaddedCell("VendorId", k) = Some(Spaces(5) \o <<"-">>)

(***************************************************************************)
(* C22.  With headings enabled, at every level (bus, device,               *)
(* configuration, interface, endpoint) the heading row is written exactly  *)
(* once per sibling batch, immediately before the row of the batch's       *)
(* first element and not again for later elements; a batch with no         *)
(* elements writes no heading row.                                         *)
(***************************************************************************)
HeadingLines == {k \in DOMAIN out : out[k].kind = "heading"}

C22_HeadingOncePerBatch ==
    (Printed /\ settings.headings) =>
        /\ \A k \in HeadingLines :
              /\ out[k].i = 0
              /\ k + 1 \in DOMAIN out
              /\ out[k + 1].kind = "value"
              /\ out[k + 1].level = out[k].level
              /\ out[k + 1].i = 0
        /\ \A k \in DOMAIN out :
              (out[k].kind = "value" /\ out[k].i = 0) =>
                  /\ k - 1 \in HeadingLines
                  /\ out[k - 1].level = out[k].level

(***************************************************************************)
(* C23.  In flat (non-tree) mode no connector, terminator or prefix glyph  *)
(* is written on any line: device rows start at column 0, and              *)
(* configuration, interface and endpoint rows and their heading rows are   *)
(* indented by exactly 2, 4 and 6 spaces, whatever the nesting depth of    *)
(* the owning device.                                                      *)
(***************************************************************************)
C23_FlatIndentByLevel ==
    (Printed /\ ~settings.tree) =>
        \A k \in DOMAIN out :
            /\ out[k].lead = <<>>
            /\ out[k].term = None
            /\ out[k].indent =
                  CASE out[k].level = "config" -> 2
                    [] out[k].level = "interface" -> 4
                    [] out[k].level = "endpoint" -> 6
                    [] OTHER -> 0

\* Bus-grouped flat output with headings: a device below a hub at column 0, and below it configuration, interface and endpoint rows
\* with their heading rows at 2, 4 and 6.
C23_Witness ==
    /\ Printed /\ ~settings.tree /\ settings.headings
    /\ \E d \in ValueLines("device") :
          /\ Len(out[d].path) = 3
          /\ out[d].indent = 0
          /\ \A lv \in {"config", "interface", "endpoint"} :
                \E k \in DOMAIN out :
                    /\ k > d
                    /\ out[k].level = lv
                    /\ out[k].kind = "heading"
                    /\ IsPrefixOf(out[d].path, out[k].path)
                    /\ out[k].indent = FlatIndent(lv)
                    /\ out[k + 1].kind = "value"
                    /\ out[k + 1].indent = out[k].indent

(***************************************************************************)
(* Reading the result of from_file.                                        *)
(***************************************************************************)
Loaded == phase \in {"loaded", "panicked"} /\ arg.fn = "from_file"

\* The file holds a JSON object whose keys are fields of Config, with every
\* field that is neither a theme nor an Option present, and every value of
\* the field's type.
ValidDocument(file) ==
    /\ file.exists /\ file.utf8
    /\ file.data.type = "object"
    /\ DOMAIN file.data.fields \subseteq ConfigFields
    /\ RequiredFields \subseteq DOMAIN file.data.fields
    /\ \A k \in DOMAIN file.data.fields : IsSome(ParseField(k, file.data.fields[k]))

(***************************************************************************)
(* C24.  Config::from_file never panics: it returns an error value when    *)
(* the file cannot be opened or read or when its content is not a valid    *)
(* configuration document, one with an unknown field included, and the     *)
(* parsed Config otherwise; a document that omits the icon and colour      *)
(* themes still loads, and those themes take their default values.         *)
(***************************************************************************)
C24_FromFileNeverPanics ==
    Loaded =>
        LET r == Unwrap(ret)
            file == arg.file
        IN /\ ~r.panicked /\ phase = "loaded"
           /\ r.ok <=> ValidDocument(file)
           /\ (file.exists /\ file.utf8 /\ file.data.type = "object"
                 /\ "colors" \in DOMAIN file.data.fields) => ~r.ok
           /\ r.ok =>
                 \A k \in ConfigFields :
                    /\ k \in DOMAIN file.data.fields =>
                          Some(r.value[k]) = ParseField(k, file.data.fields[k])
                    /\ (k \notin DOMAIN file.data.fields /\ k \in DefaultedFields) =>
                          r.value[k] = DefaultTheme
                    /\ (k \notin DOMAIN file.data.fields /\ k \in OptionFields) =>
                          r.value[k] = None

\* A document without either theme loaded with the default themes and its
\* own blocks.
C24_Witness ==
    /\ Loaded
    /\ arg.file.data.type = "object"
    /\ DOMAIN arg.file.data.fields = ConfigFields \ DefaultedFields
    /\ Unwrap(ret).ok
    /\ Unwrap(ret).value["icons"] = DefaultTheme
    /\ Unwrap(ret).value["colours"] = DefaultTheme
    /\ Unwrap(ret).value["bus-blocks"] = Some(<<"HostController">>)
    /\ Unwrap(ret).value["verbose"] = MAX_VERBOSITY

(***************************************************************************)
(* The rows below a device row.                                            *)
(***************************************************************************)
LevelsBelow(level) ==
    CASE level = "config" -> 1
      [] level = "interface" -> 2
      [] level = "endpoint" -> 3
      [] OTHER -> 0

\* The path of the device that row k belongs to: its own path for a device
\* row, the path without the configuration, interface and endpoint indices
\* for a row below a device.
OwnerPath(k) ==
    SubSeq(out[k].path, 1, Len(out[k].path) - LevelsBelow(out[k].level))

\* The rows of the configurations, interfaces and endpoints of the device of
\* row d, heading rows included.
OwnRows(d) ==
    {k \in DOMAIN out :
        /\ LevelsBelow(out[k].level) > 0
        /\ OwnerPath(k) = out[d].path}

\* The rows of the devices below the device of row d, with all their rows.
SubtreeRows(d) ==
    {k \in DOMAIN out :
        /\ out[k].level /= "bus"
        /\ Len(OwnerPath(k)) > Len(out[d].path)
        /\ IsPrefixOf(out[d].path, OwnerPath(k))}

\* The value rows of the later siblings of the device of row d.
LaterSiblings(d) ==
    {k \in ValueLines("device") :
        /\ Len(out[k].path) = Len(out[d].path)
        /\ ParentPath(out[k]) = ParentPath(out[d])
        /\ out[k].i > out[d].i}

(***************************************************************************)
(* C25.  For every device printed by print_devices the order of the        *)
(* output is: the device's own row, then all rows of its configurations    *)
(* with their interfaces and endpoints, then all rows of its child         *)
(* devices and their subtrees, and only after that the row of the          *)
(* device's next sibling.                                                  *)
(***************************************************************************)
C25_ConfigurationsThenChildren ==
    (Printed /\ (settings.tree \/ settings.group_devices = "Bus")) =>
        \A d \in ValueLines("device") :
            LET own == Cardinality(OwnRows(d))
                sub == Cardinality(SubtreeRows(d))
            IN /\ OwnRows(d) = (d + 1)..(d + own)
               /\ SubtreeRows(d) = (d + own + 1)..(d + own + sub)
               /\ \A m \in LaterSiblings(d) : m > d + own + sub
               /\ \A m \in LaterSiblings(d) :
                     out[m].i = out[d].i + 1 => m = d + own + sub + 1

\* A hub with its extended info, whose configurations, interfaces and
\* endpoints are printed, then its child devices, then its next sibling.
C25_Witness ==
    /\ Printed /\ settings.tree /\ settings.verbosity >= 3
    /\ \E d \in ValueLines("device") :
          /\ \A lv \in {"config", "interface", "endpoint"} :
                \E k \in OwnRows(d) : out[k].level = lv /\ out[k].kind = "value"
          /\ \E k \in SubtreeRows(d) : out[k].level = "device"
          /\ \E k \in SubtreeRows(d) : out[k].level = "config"
          /\ LaterSiblings(d) /= {}
          /\ \A k \in OwnRows(d) : \A j \in SubtreeRows(d) : k < j

(***************************************************************************)
(* C26.  For every block that has an entry in the padding table of its     *)
(* entity type, heading(padding) is the fixed label centred in a field of  *)
(* exactly the padding width, so that the heading cell is as wide as the   *)
(* value cells of the column.                                              *)
(***************************************************************************)
C26_HeadingCentredToPadding ==
    Padded =>
        \A b \in DOMAIN pad :
            /\ Heading(batch.level, b, pad)
                  = PadCentre(Heading(batch.level, b, EmptyPad), pad[b])
            /\ CharLen(Heading(batch.level, b, pad)) = pad[b]

(***************************************************************************)
(* C27.  For each of the five entity types, value_is_string is true for    *)
(* exactly the blocks that take part in padding: a block is reported as a  *)
(* text column if and only if generate_padding gives it a width.           *)
(***************************************************************************)
ValueIsString(level, b) ==
    CASE level = "device" -> DeviceValueIsString(b)
      [] level = "bus" -> BusValueIsString(b)
      [] level = "config" -> ConfigValueIsString(b)
      [] level = "interface" -> InterfaceValueIsString(b)
      [] level = "endpoint" -> EndpointValueIsString(b)

C27_TextColumnsArePadded ==
    Padded =>
        \A b \in BlocksOf(batch.level) :
            ValueIsString(batch.level, b) <=> b \in DOMAIN pad

(***************************************************************************)
(* C28.  mask_serial changes nothing but serial strings: a device without  *)
(* a serial keeps none, and every other attribute and the shape and order  *)
(* of the device tree stay as they were; with recursive = false only the   *)
(* given device's serial is masked and its descendants are untouched,      *)
(* with recursive = true every descendant with a serial is masked as       *)
(* well.                                                                   *)
(***************************************************************************)
C28_OnlySerialsChange ==
    Masked =>
        LET before == arg.device
            after == Unwrap(ret)
        IN /\ StripSerials(after) = StripSerials(before)
           /\ \A p \in MaskedPairs(before, after, TRUE) :
                 ~IsSome(p[1].serial_num) => ~IsSome(p[2].serial_num)
           /\ ~arg.recursive => after.devices = before.devices
           /\ \A p \in MaskedPairs(before, after, arg.recursive) :
                 IsSome(p[1].serial_num) =>
                    /\ IsSome(p[2].serial_num)
                    /\ Unwrap(p[2].serial_num)
                          \in MaskedSerials(Unwrap(p[1].serial_num), arg.hide)
                    /\ (arg.hide = "Hide" /\ Unwrap(p[1].serial_num) /= <<>>) =>
                          p[2].serial_num /= p[1].serial_num

\* A device with a serial and child devices with serials masked without
\* recursion: its serial is hidden, theirs are what they were.
C28_Witness ==
    /\ Masked /\ ~arg.recursive /\ arg.hide = "Hide"
    /\ arg.device.serial_num = Some(<<"A", "B">>)
    /\ Unwrap(ret).serial_num = Some(<<"*", "*">>)
    /\ IsSome(Unwrap(ret).devices)
    /\ Unwrap(Unwrap(ret).devices)[1].serial_num = Some(<<"A", "B">>)
    /\ ~IsSome(Unwrap(Unwrap(Unwrap(ret).devices)[2].devices)[1].serial_num)

(***************************************************************************)
(* C29.  For every block list and every settings combination, an icon      *)
(* block selected while no icon theme is set in particular, the heading    *)
(* row of render_heading has as many cells as every value row of           *)
(* render_value of its batch, so that each heading stands above its own    *)
(* column.                                                                 *)
(***************************************************************************)
C29_HeadingCellsMatchValueCells ==
    (Printed /\ settings.headings) =>
        \A k \in HeadingLines : \A j \in DOMAIN out :
            (/\ j > k
             /\ out[j].kind = "value"
             /\ out[j].level = out[k].level
             /\ out[j].pad = out[k].pad
             /\ \A m \in (k + 1)..(j - 1) : out[m].kind /= "heading"
                                              \/ out[m].level /= out[k].level) =>
                Len(out[j].cells) = Len(out[k].cells)

(***************************************************************************)
(* Reading the rows of a tree printed by print_sp_usb.                     *)
(***************************************************************************)
BlankLines == {k \in DOMAIN out : out[k].kind = "blank"}

\* The device that the device row k shows: the one at the row's path in
\* the tree with every batch in the order it is shown.
ShownDevice(k) ==
    DeviceAt(ShownDevices(Unwrap(sp_usb.buses[out[k].path[1] + 1].devices), settings),
             Tail(out[k].path))

\* The number of devices below, and including, the devices ds.
RECURSIVE CountDevices(_)
CountDevices(ds) ==
    IF ds = <<>> THEN 0
    ELSE 1 + (IF IsSome(Head(ds).devices) THEN CountDevices(Unwrap(Head(ds).devices))
              ELSE 0)
           + CountDevices(Tail(ds))

\* The valid paths of the devices below the devices ds, reached by prefix.
RECURSIVE DevicePaths(_, _)
DevicePaths(ds, prefix) ==
    UNION {{prefix \o <<k - 1>>}
           \cup (IF IsSome(ds[k].devices)
                 THEN DevicePaths(Unwrap(ds[k].devices), prefix \o <<k - 1>>)
                 ELSE {}) : k \in DOMAIN ds}

\* The paths of the devices of the tree, every batch in the order shown.
TreeDevicePaths ==
    UNION {IF IsSome(sp_usb.buses[b].devices)
           THEN DevicePaths(ShownDevices(Unwrap(sp_usb.buses[b].devices), settings),
                            <<b - 1>>)
           ELSE {} : b \in DOMAIN sp_usb.buses}

(***************************************************************************)
(* C30.  For every finite tree of buses and devices and every settings     *)
(* combination print_sp_usb ends having written exactly one value row for  *)
(* each bus and exactly one value row for each device at any depth of the  *)
(* tree, no device skipped or printed twice, and one blank separator line  *)
(* after the block of each bus.                                            *)
(***************************************************************************)
C30_EveryBusAndDeviceOnce ==
    (Printed /\ (settings.tree \/ settings.group_devices = "Bus")) =>
        /\ {out[k].path : k \in ValueLines("bus")} = {<<b - 1>> : b \in DOMAIN sp_usb.buses}
        /\ Cardinality(ValueLines("bus")) = Len(sp_usb.buses)
        /\ \A k \in ValueLines("bus") :
              /\ out[k].name = sp_usb.buses[out[k].i + 1].name
              /\ out[k].number = sp_usb.buses[out[k].i + 1].usb_bus_number
        /\ {out[k].path : k \in ValueLines("device")} = TreeDevicePaths
        /\ Cardinality(ValueLines("device")) = Cardinality(TreeDevicePaths)
        /\ Cardinality(ValueLines("device")) = Len(SpFlattenDevices(sp_usb))
        /\ \A k \in ValueLines("device") :
              /\ out[k].name = ShownDevice(k).name
              /\ out[k].number = ShownDevice(k).location_id.number
        /\ Cardinality(BlankLines) = Len(sp_usb.buses)
        /\ \A k \in ValueLines("bus") :
              \E j \in BlankLines :
                 /\ j > k
                 /\ \A m \in (k + 1)..(j - 1) :
                       out[m].level /= "bus" /\ IsPrefixOf(out[k].path, out[m].path)
                 /\ (j + 1 \in DOMAIN out =>
                       out[j + 1].level = "bus" /\ out[j + 1].i = out[k].i + 1)
        /\ (out /= <<>> => Len(out) \in BlankLines)

\* Three buses, the first with devices three levels deep that are shown in
\* another order than stored: a row for each, and three blank lines.
C30_Witness ==
    /\ Printed /\ settings.tree /\ settings.sort_devices = "BranchPosition"
    /\ Len(sp_usb.buses) = MaxBuses
    /\ Cardinality(BlankLines) = MaxBuses
    /\ ShownOutOfStoredOrder
    /\ \E k \in ValueLines("device") : Len(out[k].path) = 4
    /\ Cardinality(ValueLines("device")) >= 6
    /\ Cardinality(ValueLines("device")) = Len(SpFlattenDevices(sp_usb))

====
